---- MODULE Spec2Model ----
(***************************************************************************)
(* Lot-based position accounting of the invest dashboard:                  *)
(*   business_logic.py  quantity derivation, sale validation, available    *)
(*                      quantity, FIFO remaining positions                 *)
(*   price_service.py   per-transaction performance, FIFO realized P&L,    *)
(*                      portfolio summary, price lookup                    *)
(*   app.py             entry of incomes and of bourse transactions        *)
(*                                                                         *)
(* Numbers.  The Python code computes on floats.  The model computes on    *)
(* exact rationals: every float is a reduced fraction <<n, d>> with d > 0  *)
(* (F(3) = <<3, 1>>), and +, -, *, /, <, <=, min, max are FAdd, FSub,      *)
(* FMul, FDiv, FLt, FLe, FMin, FMax.  Float rounding is outside the model. *)
(* Dates are day numbers: only their order is used.                        *)
(*                                                                         *)
(* Optional values.  Python's None is the empty tuple <<>>, which differs   *)
(* from every fraction.  A dict key that may be missing (type_operation)   *)
(* is a record field that may be missing from DOMAIN.                      *)
(***************************************************************************)
EXTENDS Integers, Sequences, FiniteSets, TLC

VARIABLES
    cache,                \* price_service.py:17, PriceService.cache
    revenus,              \* the rows of the table "revenus" of the store
    investissements,      \* the transaction list handed to the core (one table)
    appel,                \* the last call of a pure function: name, arguments, result
    pc,                   \* position inside calculate_investment_performance
    unique_symbols,       \* price_service.py:206, the list the lookup loop walks
    symbol_prices,        \* price_service.py:209
    appels_prix,          \* the calls of get_current_price so far: symbol and result
    enriched_investments  \* price_service.py:203

vars == <<cache, revenus, investissements, appel, pc, unique_symbols, symbol_prices,
          appels_prix, enriched_investments>>

perfVars == <<pc, unique_symbols, symbol_prices, appels_prix, enriched_investments>>

-----------------------------------------------------------------------------
(* Bounds of the model *)

MaxLen == 3        \* transactions in a generated history
MaxDate == 2       \* dates are day numbers 1..MaxDate
MaxQte == 2        \* quantities 1..MaxQte
MaxPrix == 2       \* unit prices 1..MaxPrix
MaxBatch == 2      \* transactions in a generated performance batch
MaxPrixActuel == 2 \* current prices 1..MaxPrixActuel returned by the lookup

-----------------------------------------------------------------------------
(* Arithmetic helpers *)

Abs(x) == IF x < 0 THEN -x ELSE x

RECURSIVE PGCD(_, _)
PGCD(a, b) == IF b = 0 THEN a ELSE PGCD(b, a % b)

\* the rational n / d (d # 0) in lowest terms
Frac(n, d) ==
    LET g == PGCD(Abs(n), Abs(d))
        s == IF d < 0 THEN -1 ELSE 1
    IN  <<(s * n) \div g, (s * d) \div g>>

F(n) == <<n, 1>>

Zero == <<0, 1>>

FAdd(a, b) == Frac(a[1] * b[2] + b[1] * a[2], a[2] * b[2])

FSub(a, b) == Frac(a[1] * b[2] - b[1] * a[2], a[2] * b[2])

FMul(a, b) == Frac(a[1] * b[1], a[2] * b[2])

\* a / b, b # 0
FDiv(a, b) == Frac(a[1] * b[2], a[2] * b[1])

FLt(a, b) == a[1] * b[2] < b[1] * a[2]

FLe(a, b) == a[1] * b[2] <= b[1] * a[2]

FMin(a, b) == IF FLe(a, b) THEN a ELSE b

FMax(a, b) == IF FLe(b, a) THEN a ELSE b

\* Python's None where a float may stand
None == <<>>

-----------------------------------------------------------------------------
(* Strings: str.upper() and str.strip() on the symbols of the model *)

Upper(s) ==
    CASE s = "aapl" -> "AAPL"
      [] s = "btc" -> "BTC"
      [] s = "xyz" -> "XYZ"
      [] OTHER -> s

Strip(s) == IF s = " " THEN "" ELSE s

\* `not symbole or not symbole.strip()`
SymboleVide(s) == s = "" \/ Strip(s) = ""

-----------------------------------------------------------------------------
(* Transaction records *)

\* the dict built by creer_donnees_investissement: no type_operation key
\* (whole numbers q, p, m given as integers)
Achat(d, s, q, p, m) ==
    [date |-> d, symbole |-> s, montant |-> F(m), prix_unitaire |-> F(p),
     quantite |-> F(q), hors_budget |-> FALSE]

\* the dict built by creer_donnees_vente
Vente(d, s, q, p, m) ==
    [date |-> d, symbole |-> s, montant |-> F(m), prix_unitaire |-> F(p),
     quantite |-> F(q), hors_budget |-> TRUE, type_operation |-> "Vente"]

\* app.py:476  donnees_investissement["type_operation"] = type_operation_bourse
AvecType(inv, t) ==
    [k \in DOMAIN inv \cup {"type_operation"} |->
        IF k = "type_operation" THEN t ELSE inv[k]]

\* inv.get("type_operation") == "Vente"
EstVente(inv) == "type_operation" \in DOMAIN inv /\ inv["type_operation"] = "Vente"

\* inv["symbole"].upper() == symbole.upper()
MemeSymbole(inv, symbole) == Upper(inv.symbole) = Upper(symbole)

-----------------------------------------------------------------------------
(* business_logic.py: quantity derivation *)

ValueError == "ValueError"

\* the outcome of a call: a raised exception or a returned value
Leve(e) == [exception |-> e]

Retourne(v) == [valeur |-> v]

ALeve(r) == "exception" \in DOMAIN r

\* mutant: only a zero price is refused
calculer_quantite_investissement_zero_seul(montant, prix_unitaire) ==
    IF prix_unitaire = Zero
    THEN Leve(ValueError)
    ELSE Retourne(FDiv(montant, prix_unitaire))

calculer_quantite_investissement(montant, prix_unitaire) ==
    IF FLe(prix_unitaire, Zero)
    THEN Leve(ValueError)
    ELSE Retourne(FDiv(montant, prix_unitaire))

creer_donnees_investissement(date_achat, symbole, montant, prix_unitaire, hors_budget) ==
    LET quantite == calculer_quantite_investissement(montant, prix_unitaire)
    IN  IF ALeve(quantite)
        THEN quantite
        ELSE Retourne([date |-> date_achat, symbole |-> Upper(symbole),
                       montant |-> montant, prix_unitaire |-> prix_unitaire,
                       quantite |-> quantite.valeur, hors_budget |-> hors_budget])

creer_donnees_vente(date_vente, symbole, montant, prix_unitaire) ==
    LET quantite == calculer_quantite_investissement(montant, prix_unitaire)
    IN  IF ALeve(quantite)
        THEN quantite
        ELSE Retourne([date |-> date_vente, symbole |-> Upper(symbole),
                       montant |-> montant, prix_unitaire |-> prix_unitaire,
                       quantite |-> quantite.valeur, hors_budget |-> TRUE,
                       type_operation |-> "Vente"])

-----------------------------------------------------------------------------
(* business_logic.py: available quantity and sale validation *)

\* the loop of calculer_quantite_disponible, from index i with the running total
RECURSIVE CumulQuantite(_, _, _, _)
CumulQuantite(invs, symbole, i, quantite_totale) ==
    IF i > Len(invs)
    THEN quantite_totale
    ELSE IF MemeSymbole(invs[i], symbole)
         THEN IF EstVente(invs[i])
              THEN CumulQuantite(invs, symbole, i + 1,
                                 FSub(quantite_totale, invs[i].quantite))
              ELSE CumulQuantite(invs, symbole, i + 1,
                                 FAdd(quantite_totale, invs[i].quantite))
         ELSE CumulQuantite(invs, symbole, i + 1, quantite_totale)

\* mutant: the clamp at zero is forgotten
calculer_quantite_disponible_sans_borne(invs, symbole) ==
    CumulQuantite(invs, symbole, 1, Zero)

calculer_quantite_disponible(invs, symbole) ==
    FMax(Zero, CumulQuantite(invs, symbole, 1, Zero))

verifier_position_suffisante(invs, symbole, quantite_demandee) ==
    FLe(quantite_demandee, calculer_quantite_disponible(invs, symbole))

ErrMontant == "Le montant de vente doit etre superieur a 0"

ErrPrix == "Le prix unitaire de vente doit etre superieur a 0"

ErrQuantite == "La quantite a vendre doit etre superieure a 0"

ErrSymbole == "Le symbole est obligatoire"

ErrInsuffisante == "Quantite insuffisante"

\* mutant: the available quantity is not looked at
valider_donnees_vente_sans_position(montant, prix_unitaire, symbole, quantite_vente, invs) ==
    LET e1 == IF FLe(montant, Zero) THEN <<ErrMontant>> ELSE <<>>
        e2 == IF FLe(prix_unitaire, Zero) THEN <<ErrPrix>> ELSE <<>>
        e3 == IF FLe(quantite_vente, Zero) THEN <<ErrQuantite>> ELSE <<>>
        e4 == IF SymboleVide(symbole) THEN <<ErrSymbole>> ELSE <<>>
    IN  e1 \o e2 \o e3 \o e4

\* mutant: selling exactly the available quantity is refused
valider_donnees_vente_strict(montant, prix_unitaire, symbole, quantite_vente, invs) ==
    LET e1 == IF FLe(montant, Zero) THEN <<ErrMontant>> ELSE <<>>
        e2 == IF FLe(prix_unitaire, Zero) THEN <<ErrPrix>> ELSE <<>>
        e3 == IF FLe(quantite_vente, Zero) THEN <<ErrQuantite>> ELSE <<>>
        e4 == IF SymboleVide(symbole) THEN <<ErrSymbole>> ELSE <<>>
        quantite_disponible == calculer_quantite_disponible(invs, symbole)
        e5 == IF FLe(quantite_disponible, quantite_vente)
              THEN <<ErrInsuffisante>> ELSE <<>>
    IN  e1 \o e2 \o e3 \o e4 \o e5

valider_donnees_vente(montant, prix_unitaire, symbole, quantite_vente, invs) ==
    LET e1 == IF FLe(montant, Zero) THEN <<ErrMontant>> ELSE <<>>
        e2 == IF FLe(prix_unitaire, Zero) THEN <<ErrPrix>> ELSE <<>>
        e3 == IF FLe(quantite_vente, Zero) THEN <<ErrQuantite>> ELSE <<>>
        e4 == IF SymboleVide(symbole) THEN <<ErrSymbole>> ELSE <<>>
        quantite_disponible == calculer_quantite_disponible(invs, symbole)
        e5 == IF FLt(quantite_disponible, quantite_vente)
              THEN <<ErrInsuffisante>> ELSE <<>>
    IN  e1 \o e2 \o e3 \o e4 \o e5

-----------------------------------------------------------------------------
(* Filtering and the stable sort by date shared by both FIFO walks *)

\* mutant: the rows of every symbol are kept
FiltrerSymbole_sans_filtre(invs, symbole) == invs

FiltrerSymbole(invs, symbole) ==
    LET Garde(inv) == MemeSymbole(inv, symbole)
    IN  SelectSeq(invs, Garde)

\* mutant: x goes before the elements of its own date
InsererParDate_avant_egaux(tries, x) ==
    LET k == Cardinality({i \in 1..Len(tries) : tries[i].date < x.date})
    IN  SubSeq(tries, 1, k) \o <<x>> \o SubSeq(tries, k + 1, Len(tries))

\* x goes after every element whose date is <= its own: list.sort is stable
InsererParDate(tries, x) ==
    LET k == Cardinality({i \in 1..Len(tries) : tries[i].date <= x.date})
    IN  SubSeq(tries, 1, k) \o <<x>> \o SubSeq(tries, k + 1, Len(tries))

RECURSIVE TrierDepuis(_, _, _)
TrierDepuis(s, i, acc) ==
    IF i > Len(s) THEN acc ELSE TrierDepuis(s, i + 1, InsererParDate(acc, s[i]))

\* mutant: the list is left in insertion order
TrierParDate_sans_tri(s) == s

\* symbol_investments.sort(key=lambda x: x["date"])
TrierParDate(s) == TrierDepuis(s, 1, <<>>)

Achats(symbol_investments) ==
    LET Garde(inv) == ~EstVente(inv)
    IN  SelectSeq(symbol_investments, Garde)

Ventes(symbol_investments) ==
    SelectSeq(symbol_investments, EstVente)

-----------------------------------------------------------------------------
(* business_logic.py: calculer_positions_restantes_fifo *)

PositionInitiale(purchase) ==
    [date |-> purchase.date,
     type_operation |-> IF "type_operation" \in DOMAIN purchase
                        THEN purchase["type_operation"] ELSE "Achat",
     prix_unitaire |-> purchase.prix_unitaire,
     quantite_initiale |-> purchase.quantite,
     quantite_restante |-> purchase.quantite,
     montant_initial |-> purchase.montant,
     montant_restant |-> purchase.montant]

\* mutant: the remaining amount of a depleted lot is not recomputed
RECURSIVE ParcourirPositions_sans_recalcul(_, _, _)
ParcourirPositions_sans_recalcul(positions, i, quantity_to_sell) ==
    IF i > Len(positions) \/ FLe(quantity_to_sell, Zero)
    THEN positions
    ELSE IF FLt(Zero, positions[i].quantite_restante)
         THEN LET qty_from_this_position ==
                      FMin(positions[i].quantite_restante, quantity_to_sell)
                  maj == [positions EXCEPT
                             ![i].quantite_restante = FSub(@, qty_from_this_position)]
              IN  ParcourirPositions_sans_recalcul(
                      maj, i + 1, FSub(quantity_to_sell, qty_from_this_position))
         ELSE ParcourirPositions_sans_recalcul(positions, i + 1, quantity_to_sell)

\* `for position in remaining_positions`, from index i, for one sale
RECURSIVE ParcourirPositions(_, _, _)
ParcourirPositions(positions, i, quantity_to_sell) ==
    IF i > Len(positions) \/ FLe(quantity_to_sell, Zero)
    THEN positions
    ELSE IF FLt(Zero, positions[i].quantite_restante)
         THEN LET qty_from_this_position ==
                      FMin(positions[i].quantite_restante, quantity_to_sell)
                  restante ==
                      FSub(positions[i].quantite_restante, qty_from_this_position)
                  maj == [positions EXCEPT
                             ![i].quantite_restante = restante,
                             ![i].montant_restant =
                                 FMul(restante, positions[i].prix_unitaire)]
              IN  ParcourirPositions(maj, i + 1,
                                     FSub(quantity_to_sell, qty_from_this_position))
         ELSE ParcourirPositions(positions, i + 1, quantity_to_sell)

Renverser(s) == [i \in 1..Len(s) |-> s[Len(s) + 1 - i]]

\* mutant: the newest lot is depleted first
AppliquerVente_lifo(positions, sale) ==
    Renverser(ParcourirPositions(Renverser(positions), 1, sale.quantite))

\* mutant: a sale is taken from the oldest open lot only, the rest of it is lost
AppliquerVente_un_seul_lot(positions, sale) ==
    LET ouverts == {i \in 1..Len(positions) : FLt(Zero, positions[i].quantite_restante)}
    IN  IF ouverts = {} \/ FLe(sale.quantite, Zero)
        THEN positions
        ELSE LET i == CHOOSE k \in ouverts : \A l \in ouverts : k <= l
                 restante == FSub(positions[i].quantite_restante,
                                  FMin(positions[i].quantite_restante, sale.quantite))
             IN  [positions EXCEPT
                     ![i].quantite_restante = restante,
                     ![i].montant_restant = FMul(restante, positions[i].prix_unitaire)]

\* mutant: the whole sale is charged to the oldest open lot, below zero if need be
AppliquerVente_sans_min(positions, sale) ==
    LET ouverts == {i \in 1..Len(positions) : FLt(Zero, positions[i].quantite_restante)}
    IN  IF ouverts = {} \/ FLe(sale.quantite, Zero)
        THEN positions
        ELSE LET i == CHOOSE k \in ouverts : \A l \in ouverts : k <= l
                 restante == FSub(positions[i].quantite_restante, sale.quantite)
             IN  [positions EXCEPT
                     ![i].quantite_restante = restante,
                     ![i].montant_restant = FMul(restante, positions[i].prix_unitaire)]

\* mutant: a sale only takes from the lots dated no later than itself
AppliquerVente_lots_anterieurs(positions, sale) ==
    LET k == Cardinality({i \in 1..Len(positions) : positions[i].date <= sale.date})
    IN  ParcourirPositions(SubSeq(positions, 1, k), 1, sale.quantite)
            \o SubSeq(positions, k + 1, Len(positions))

\* the body of `for sale in sales`
AppliquerVente(positions, sale) ==
    ParcourirPositions(positions, 1, sale.quantite)

RECURSIVE AppliquerVentes(_, _, _)
AppliquerVentes(positions, sales, j) ==
    IF j > Len(sales)
    THEN positions
    ELSE AppliquerVentes(AppliquerVente(positions, sales[j]), sales, j + 1)

PositionsUtiles(remaining_positions) ==
    LET Garde(pos) == FLt(Zero, pos.quantite_initiale)
    IN  SelectSeq(remaining_positions, Garde)

calculer_positions_restantes_fifo(invs, symbole) ==
    LET symbol_investments == TrierParDate(FiltrerSymbole(invs, symbole))
        purchases == Achats(symbol_investments)
        sales == Ventes(symbol_investments)
        remaining_positions ==
            [i \in 1..Len(purchases) |-> PositionInitiale(purchases[i])]
    IN  PositionsUtiles(AppliquerVentes(remaining_positions, sales, 1))

-----------------------------------------------------------------------------
(* price_service.py: calculate_realized_pnl *)

\* mutant: the portion is counted as cost minus proceeds
RECURSIVE AssocierAchats_cout_moins_vente(_, _, _)
AssocierAchats_cout_moins_vente(acc, quantity_to_match, sale_price) ==
    IF ~(FLt(Zero, quantity_to_match) /\ Len(acc.remaining_purchases) > 0)
    THEN acc
    ELSE LET purchase == Head(acc.remaining_purchases)
             tout == FLe(purchase.quantite, quantity_to_match)
             matched_qty == IF tout THEN purchase.quantite ELSE quantity_to_match
             reste == IF tout
                      THEN Tail(acc.remaining_purchases)
                      ELSE <<[purchase EXCEPT !.quantite = FSub(@, matched_qty)]>>
                           \o Tail(acc.remaining_purchases)
             cost_basis == FMul(matched_qty, purchase.prix_unitaire)
             sale_value == FMul(matched_qty, sale_price)
         IN  AssocierAchats_cout_moins_vente(
                 [acc EXCEPT !.remaining_purchases = reste,
                             !.total_pnl_realized = FAdd(@, FSub(cost_basis, sale_value)),
                             !.total_cost_basis = FAdd(@, cost_basis)],
                 FSub(quantity_to_match, matched_qty), sale_price)

\* the `while quantity_to_match > 0 and remaining_purchases` loop; acc carries
\* remaining_purchases and the running totals
RECURSIVE AssocierAchats(_, _, _)
AssocierAchats(acc, quantity_to_match, sale_price) ==
    IF ~(FLt(Zero, quantity_to_match) /\ Len(acc.remaining_purchases) > 0)
    THEN acc
    ELSE LET purchase == Head(acc.remaining_purchases)
             available_qty == purchase.quantite
             purchase_price == purchase.prix_unitaire
             tout == FLe(available_qty, quantity_to_match)
             matched_qty == IF tout THEN available_qty ELSE quantity_to_match
             reste == IF tout
                      THEN Tail(acc.remaining_purchases)
                      ELSE <<[purchase EXCEPT !.quantite = FSub(@, matched_qty)]>>
                           \o Tail(acc.remaining_purchases)
             cost_basis == FMul(matched_qty, purchase_price)
             sale_value == FMul(matched_qty, sale_price)
             portion_pnl == FSub(sale_value, cost_basis)
         IN  AssocierAchats(
                 [acc EXCEPT !.remaining_purchases = reste,
                             !.total_pnl_realized = FAdd(@, portion_pnl),
                             !.total_cost_basis = FAdd(@, cost_basis)],
                 FSub(quantity_to_match, matched_qty), sale_price)

\* the body of `for sale in sales`
AssocierVente(acc, sale) ==
    AssocierAchats(
        [acc EXCEPT !.total_quantity_sold = FAdd(@, sale.quantite),
                    !.total_sale_value = FAdd(@, sale.montant)],
        sale.quantite, sale.prix_unitaire)

RECURSIVE AssocierVentes(_, _, _)
AssocierVentes(acc, sales, j) ==
    IF j > Len(sales)
    THEN acc
    ELSE AssocierVentes(AssocierVente(acc, sales[j]), sales, j + 1)

\* mutant: without sales the averages are left undefined
PnlNul_sans_moyennes ==
    [pnl_realise_montant |-> Zero, pnl_realise_pourcentage |-> Zero,
     quantite_vendue_totale |-> Zero, prix_moyen_vente |-> None,
     prix_moyen_achat_vendu |-> None]

PnlNul ==
    [pnl_realise_montant |-> Zero, pnl_realise_pourcentage |-> Zero,
     quantite_vendue_totale |-> Zero, prix_moyen_vente |-> Zero,
     prix_moyen_achat_vendu |-> Zero]

\* mutant: the percentage is taken on the proceeds of the sales
CalculsFinaux_sur_ventes(acc) ==
    [pnl_realise_montant |-> acc.total_pnl_realized,
     pnl_realise_pourcentage |->
         IF FLt(Zero, acc.total_sale_value)
         THEN FMul(FDiv(acc.total_pnl_realized, acc.total_sale_value), F(100))
         ELSE Zero,
     quantite_vendue_totale |-> acc.total_quantity_sold,
     prix_moyen_vente |->
         IF FLt(Zero, acc.total_quantity_sold)
         THEN FDiv(acc.total_sale_value, acc.total_quantity_sold) ELSE Zero,
     prix_moyen_achat_vendu |->
         IF FLt(Zero, acc.total_quantity_sold)
         THEN FDiv(acc.total_cost_basis, acc.total_quantity_sold) ELSE Zero]

\* the "Calculs finaux" block
CalculsFinaux(acc) ==
    [pnl_realise_montant |-> acc.total_pnl_realized,
     pnl_realise_pourcentage |->
         IF FLt(Zero, acc.total_cost_basis)
         THEN FMul(FDiv(acc.total_pnl_realized, acc.total_cost_basis), F(100))
         ELSE Zero,
     quantite_vendue_totale |-> acc.total_quantity_sold,
     prix_moyen_vente |->
         IF FLt(Zero, acc.total_quantity_sold)
         THEN FDiv(acc.total_sale_value, acc.total_quantity_sold) ELSE Zero,
     prix_moyen_achat_vendu |->
         IF FLt(Zero, acc.total_quantity_sold)
         THEN FDiv(acc.total_cost_basis, acc.total_quantity_sold) ELSE Zero]

calculate_realized_pnl(invs, symbol) ==
    LET symbol_investments == TrierParDate(FiltrerSymbole(invs, symbol))
        purchases == Achats(symbol_investments)
        sales == Ventes(symbol_investments)
        depart == [remaining_purchases |-> purchases,
                   total_pnl_realized |-> Zero, total_quantity_sold |-> Zero,
                   total_sale_value |-> Zero, total_cost_basis |-> Zero]
    IN  IF Len(sales) = 0
        THEN PnlNul
        ELSE CalculsFinaux(AssocierVentes(depart, sales, 1))

-----------------------------------------------------------------------------
(* price_service.py: calculate_investment_performance *)

\* dict.update: the keys of champs are set, the others kept
Update(d, champs) ==
    [k \in DOMAIN d \cup DOMAIN champs |->
        IF k \in DOMAIN champs THEN champs[k] ELSE d[k]]

\* mutant: the symbols of all rows, one per row, set() forgotten
SymbolesUniques_sans_set(invs) == {[i \in 1..Len(invs) |-> invs[i].symbole]}

\* list(set([inv["symbole"] for inv in investments])): the distinct symbols,
\* in whatever order the set yields them
SymbolesUniques(invs) ==
    LET S == {invs[i].symbole : i \in 1..Len(invs)}
    IN  {l \in [1..Cardinality(S) -> S] : \A i, j \in DOMAIN l : i # j => l[i] # l[j]}

\* symbol_prices[symbol] = ...
Affecter(d, cle, v) ==
    [k \in DOMAIN d \cup {cle} |-> IF k = cle THEN v ELSE d[k]]

\* mutant: a sale row carries an estimate, current price against sale price
ChampsVente_estimation(investment, current_price) ==
    LET pnl_amount == FMul(investment.quantite,
                           FSub(investment.prix_unitaire, current_price))
    IN  [prix_actuel |-> current_price, valeur_actuelle |-> Zero,
         pnl_montant |-> pnl_amount,
         pnl_pourcentage |-> FMul(FDiv(pnl_amount, investment.montant), F(100)),
         prix_recupere |-> TRUE]

\* price_service.py:225-243, a sale with a price
ChampsVente(investment, current_price) ==
    [prix_actuel |-> current_price, valeur_actuelle |-> Zero,
     pnl_montant |-> Zero, pnl_pourcentage |-> Zero, prix_recupere |-> TRUE]

\* mutant: the percentage is taken on the current price
ChampsAchat_sur_prix_actuel(investment, current_price) ==
    LET current_value == FMul(investment.quantite, current_price)
    IN  [prix_actuel |-> current_price,
         valeur_actuelle |-> current_value,
         pnl_montant |-> FSub(current_value, investment.montant),
         pnl_pourcentage |->
             FMul(FDiv(FSub(current_price, investment.prix_unitaire),
                       current_price), F(100)),
         prix_recupere |-> TRUE]

\* price_service.py:244-262, a purchase with a price
ChampsAchat(investment, current_price) ==
    LET transaction_price == investment.prix_unitaire
        quantity == investment.quantite
        initial_value == investment.montant
        current_value == FMul(quantity, current_price)
        pnl_amount == FSub(current_value, initial_value)
        pnl_percentage ==
            FMul(FDiv(FSub(current_price, transaction_price), transaction_price),
                 F(100))
    IN  [prix_actuel |-> current_price,
         valeur_actuelle |-> current_value,
         pnl_montant |-> pnl_amount,
         pnl_pourcentage |-> pnl_percentage,
         prix_recupere |-> TRUE]

\* mutant: without a price a purchase is valued at nothing
ChampsSansPrix_valeur_nulle(investment, is_sale) ==
    [prix_actuel |-> None, valeur_actuelle |-> Zero,
     pnl_montant |-> Zero, pnl_pourcentage |-> Zero, prix_recupere |-> FALSE]

\* price_service.py:263-278, no price
ChampsSansPrix(investment, is_sale) ==
    LET current_value == IF is_sale THEN Zero ELSE investment.montant
    IN  [prix_actuel |-> None, valeur_actuelle |-> current_value,
         pnl_montant |-> Zero, pnl_pourcentage |-> Zero, prix_recupere |-> FALSE]

\* the body of `for investment in investments`, given symbol_prices[symbol]
EnrichirInvestissement(investment, current_price) ==
    LET is_sale == EstVente(investment)
    IN  IF current_price # None
        THEN IF is_sale
             THEN Update(investment, ChampsVente(investment, current_price))
             ELSE Update(investment, ChampsAchat(investment, current_price))
        ELSE Update(investment, ChampsSansPrix(investment, is_sale))

-----------------------------------------------------------------------------
(* What a call leaves in the caller's list.  A dict is followed through the  *)
(* call by a mark, objet: the i-th dict of the caller's list is              *)
(* <<"investments", i>>, a dict the call creates has a mark of its own.      *)

Marquer(invs) ==
    [i \in 1..Len(invs) |-> Update(invs[i], [objet |-> <<"investments", i>>])]

SansMarque(d) == [k \in DOMAIN d \ {"objet"} |-> d[k]]

\* the caller's list, given the dicts the call stored into, in the order of
\* the stores: a dict of the list holds what was stored last
Reporter(invs, objets) ==
    [i \in 1..Len(invs) |->
        LET ecrits == {k \in 1..Len(objets) : objets[k].objet = <<"investments", i>>}
        IN  IF ecrits = {}
            THEN invs[i]
            ELSE SansMarque(objets[CHOOSE k \in ecrits : \A l \in ecrits : l <= k])]

\* mutant: the queue holds the caller's dicts themselves
copy_deepcopy_alias(purchases) == purchases

\* copy.deepcopy(purchases): new dicts with the same contents
copy_deepcopy(purchases) ==
    [k \in 1..Len(purchases) |-> [purchases[k] EXCEPT !.objet = <<"copie", k>>]]

\* the dicts of remaining_purchases as each sale leaves them: a dict is
\* stored into while it heads the queue, and no more once popped
RECURSIVE DictsApresVentes(_, _, _, _)
DictsApresVentes(acc, sales, j, objets) ==
    IF j > Len(sales)
    THEN objets
    ELSE LET suite == AssocierVente(acc, sales[j])
         IN  DictsApresVentes(suite, sales, j + 1,
                              objets \o suite.remaining_purchases)

\* the caller's list after calculate_realized_pnl: the only stores,
\* remaining_purchases.pop(0) and purchase["quantite"] -= matched_qty, go to
\* remaining_purchases and to its dicts
investments_apres_realized_pnl(invs, symbol) ==
    LET symbol_investments == TrierParDate(FiltrerSymbole(Marquer(invs), symbol))
        purchases == Achats(symbol_investments)
        sales == Ventes(symbol_investments)
        depart == [remaining_purchases |-> copy_deepcopy(purchases),
                   total_pnl_realized |-> Zero, total_quantity_sold |-> Zero,
                   total_sale_value |-> Zero, total_cost_basis |-> Zero]
    IN  IF Len(sales) = 0
        THEN invs
        ELSE Reporter(invs, DictsApresVentes(depart, sales, 1, <<>>))

\* what calculate_realized_pnl has matched against each purchase, in the order
\* of purchases: its quantity, less what its copy still holds in the queue
quantites_associees(invs, symbol) ==
    LET symbol_investments == TrierParDate(FiltrerSymbole(Marquer(invs), symbol))
        purchases == Achats(symbol_investments)
        sales == Ventes(symbol_investments)
        depart == [remaining_purchases |-> copy_deepcopy(purchases),
                   total_pnl_realized |-> Zero, total_quantity_sold |-> Zero,
                   total_sale_value |-> Zero, total_cost_basis |-> Zero]
        fin == AssocierVentes(depart, sales, 1).remaining_purchases
        Reste(k) ==
            LET file == {l \in 1..Len(fin) : fin[l].objet = <<"copie", k>>}
            IN  IF file = {} THEN Zero ELSE fin[CHOOSE l \in file : TRUE].quantite
    IN  [k \in 1..Len(purchases) |->
            [prix_unitaire |-> purchases[k].prix_unitaire,
             quantite |-> purchases[k].quantite,
             associee |-> IF Len(sales) = 0
                          THEN Zero
                          ELSE FSub(purchases[k].quantite, Reste(k))]]

\* mutant: the position is the purchase dict, completed in place
NouvellesPositions_en_place(purchases) ==
    [k \in 1..Len(purchases) |->
        Update(purchases[k], PositionInitiale(purchases[k]))]

\* remaining_positions.append({...}): one new dict per purchase
NouvellesPositions(purchases) ==
    [k \in 1..Len(purchases) |->
        Update(PositionInitiale(purchases[k]), [objet |-> <<"position", k>>])]

\* the caller's list after calculer_positions_restantes_fifo: the stores go
\* to position["quantite_restante"] and position["montant_restant"]
investissements_apres_positions_fifo(invs, symbole) ==
    LET symbol_investments == TrierParDate(FiltrerSymbole(Marquer(invs), symbole))
        purchases == Achats(symbol_investments)
        sales == Ventes(symbol_investments)
    IN  Reporter(invs, AppliquerVentes(NouvellesPositions(purchases), sales, 1))

\* the caller's list after calculer_quantite_disponible, which stores into
\* its local quantite_totale only
investissements_apres_quantite_disponible(invs, symbole) ==
    Reporter(invs, <<>>)

-----------------------------------------------------------------------------
(* price_service.py: calculate_portfolio_summary *)

\* mutant: an empty class has no percentage
MetriquesVides_sans_pourcentage ==
    [valeur_initiale |-> Zero, valeur_actuelle |-> Zero, pnl_montant |-> Zero,
     pnl_pourcentage |-> None, pnl_realise |-> Zero, pnl_non_realise |-> Zero]

\* price_service.py:390-398
MetriquesVides ==
    [valeur_initiale |-> Zero, valeur_actuelle |-> Zero, pnl_montant |-> Zero,
     pnl_pourcentage |-> Zero, pnl_realise |-> Zero, pnl_non_realise |-> Zero]

\* sum([inv[champ] for inv in purchases])
RECURSIVE SommeChamp(_, _, _)
SommeChamp(purchases, champ, i) ==
    IF i > Len(purchases)
    THEN Zero
    ELSE FAdd(purchases[i][champ], SommeChamp(purchases, champ, i + 1))

\* `for symbol in unique_symbols`, from index k: the running total, and the
\* list as the calls of calculate_realized_pnl leave it
RECURSIVE CumulPnlRealise(_, _, _, _)
CumulPnlRealise(investments, symbols, k, realized_pnl_total) ==
    IF k > Len(symbols)
    THEN [investments |-> investments, realized_pnl_total |-> realized_pnl_total]
    ELSE LET realized_data == calculate_realized_pnl(investments, symbols[k])
         IN  CumulPnlRealise(
                 investments_apres_realized_pnl(investments, symbols[k]),
                 symbols, k + 1,
                 FAdd(realized_pnl_total, realized_data.pnl_realise_montant))

\* price_service.py:413-418; the order of list(set(...)) does not change a sum
PnlRealiseParSymbole(investments) ==
    CumulPnlRealise(investments,
                    CHOOSE symbols \in SymbolesUniques(investments) : TRUE,
                    1, Zero)

calculate_asset_metrics(investments) ==
    IF Len(investments) = 0
    THEN MetriquesVides
    ELSE LET purchases == Achats(investments)
             initial_value == SommeChamp(purchases, "montant", 1)
             current_value == SommeChamp(purchases, "valeur_actuelle", 1)
             unrealized_pnl == FSub(current_value, initial_value)
             realized_pnl_total ==
                 PnlRealiseParSymbole(investments).realized_pnl_total
             total_pnl == FAdd(realized_pnl_total, unrealized_pnl)
             pnl_pct == IF FLt(Zero, initial_value)
                        THEN FMul(FDiv(total_pnl, initial_value), F(100))
                        ELSE Zero
         IN  [valeur_initiale |-> initial_value,
              valeur_actuelle |-> current_value,
              pnl_montant |-> total_pnl,
              pnl_pourcentage |-> pnl_pct,
              pnl_realise |-> realized_pnl_total,
              pnl_non_realise |-> unrealized_pnl]

\* the list handed to calculate_asset_metrics, once it has returned
investments_apres_asset_metrics(investments) ==
    IF Len(investments) = 0
    THEN investments
    ELSE PnlRealiseParSymbole(investments).investments

\* mutant: the total percentage is the sum of the two class percentages
Totaux_somme_des_pourcentages(crypto_metrics, stock_metrics) ==
    LET total_realized == FAdd(crypto_metrics.pnl_realise, stock_metrics.pnl_realise)
        total_unrealized ==
            FAdd(crypto_metrics.pnl_non_realise, stock_metrics.pnl_non_realise)
    IN  [valeur_initiale |->
             FAdd(crypto_metrics.valeur_initiale, stock_metrics.valeur_initiale),
         valeur_actuelle |->
             FAdd(crypto_metrics.valeur_actuelle, stock_metrics.valeur_actuelle),
         pnl_montant |-> FAdd(total_realized, total_unrealized),
         pnl_pourcentage |->
             FAdd(crypto_metrics.pnl_pourcentage, stock_metrics.pnl_pourcentage),
         pnl_realise |-> total_realized,
         pnl_non_realise |-> total_unrealized]

\* price_service.py:440-457
Totaux(crypto_metrics, stock_metrics) ==
    LET total_initial ==
            FAdd(crypto_metrics.valeur_initiale, stock_metrics.valeur_initiale)
        total_current ==
            FAdd(crypto_metrics.valeur_actuelle, stock_metrics.valeur_actuelle)
        total_realized == FAdd(crypto_metrics.pnl_realise, stock_metrics.pnl_realise)
        total_unrealized ==
            FAdd(crypto_metrics.pnl_non_realise, stock_metrics.pnl_non_realise)
        total_pnl == FAdd(total_realized, total_unrealized)
        total_pnl_pct == IF FLt(Zero, total_initial)
                         THEN FMul(FDiv(total_pnl, total_initial), F(100))
                         ELSE Zero
    IN  [valeur_initiale |-> total_initial,
         valeur_actuelle |-> total_current,
         pnl_montant |-> total_pnl,
         pnl_pourcentage |-> total_pnl_pct,
         pnl_realise |-> total_realized,
         pnl_non_realise |-> total_unrealized]

calculate_portfolio_summary(crypto_investments, stock_investments) ==
    LET crypto_metrics == calculate_asset_metrics(crypto_investments)
        stock_metrics == calculate_asset_metrics(stock_investments)
    IN  [crypto |-> crypto_metrics,
         bourse |-> stock_metrics,
         total |-> Totaux(crypto_metrics, stock_metrics)]

-----------------------------------------------------------------------------
(* Inputs *)

\* test_integration.py:68-110  buy 2 @ 100, then sell 1 @ 150
ScenarioAllerRetour ==
    <<Achat(1, "AAPL", 2, 100, 200), Vente(2, "AAPL", 1, 150, 150)>>

\* test_integration.py:212-228  buy 100 @ 10, 50 @ 20, 30 @ 30, then sell 120 @ 25
ScenarioMultiLots ==
    <<Achat(1, "XYZ", 100, 10, 1000), Achat(2, "XYZ", 50, 20, 1000),
      Achat(3, "XYZ", 30, 30, 900), Vente(4, "XYZ", 120, 25, 3000)>>

\* the first two lots of test_integration.py:212-228 and its sale of 120 @ 25
ScenarioDeuxLots ==
    <<Achat(1, "XYZ", 100, 10, 1000), Achat(2, "XYZ", 50, 20, 1000),
      Vente(3, "XYZ", 120, 25, 3000)>>

\* test_integration.py:163-183  buy 0.01 BTC @ 40000, then sell 0.005 @ 50000
ScenarioCrypto ==
    <<[Achat(1, "BTC", 1, 40000, 400) EXCEPT !.quantite = Frac(1, 100)],
      [Vente(2, "BTC", 1, 50000, 250) EXCEPT !.quantite = Frac(5, 1000)]>>

\* units bought at 10 and sold at 25
ScenarioMarge ==
    <<Achat(1, "XYZ", 10, 10, 100), Vente(2, "XYZ", 4, 25, 100)>>

Scenarios ==
    {ScenarioAllerRetour, ScenarioMultiLots, ScenarioDeuxLots, ScenarioCrypto,
     ScenarioMarge}

\* every purchase and sale of AAPL within the bounds, amount = quantity * price
TransactionsAAPL ==
    UNION {{Achat(d, "AAPL", q, p, q * p), Vente(d, "AAPL", q, p, q * p)} :
              <<d, q, p>> \in (1..MaxDate) \X (1..MaxQte) \X (1..MaxPrix)}

\* the same symbol in lower case, another symbol, a purchase-like type other
\* than Achat, a zero quantity, a fractional quantity (amount 1 at price 1 is
\* not half a unit either), and amounts that differ from quantity * price
TransactionsAutres ==
    {Achat(1, "aapl", 1, 1, 1), Vente(1, "aapl", 1, 2, 2),
     Achat(1, "BTC", 1, 1, 1), Vente(1, "BTC", 1, 1, 1),
     AvecType(Achat(1, "AAPL", 1, 2, 2), "RoundUP"),
     Achat(1, "AAPL", 0, 1, 0),
     [Achat(1, "AAPL", 1, 1, 1) EXCEPT !.quantite = Frac(1, 2)],
     Achat(1, "AAPL", 1, 1, 2), Vente(1, "AAPL", 1, 1, 2)}

Transactions == TransactionsAAPL \cup TransactionsAutres

\* the symbols the functions are asked about
Cibles == {"aapl", "BTC", "XYZ"}

AucunAppel == [op |-> "aucun"]

PerfAuRepos ==
    /\ pc = "idle"
    /\ unique_symbols = <<>>
    /\ symbol_prices = <<>>
    /\ appels_prix = <<>>
    /\ enriched_investments = <<>>

\* every list of at most n rows of T
Historiques(T, n) == UNION {[1..k -> T] : k \in 0..n}

\* no function has been applied to the drawn input yet
Pret == appel = AucunAppel

-----------------------------------------------------------------------------
(* Spec: the ledger functions applied to a transaction list.  The list is   *)
(* drawn by Init: any list of generated rows, or a scenario of the tests.   *)

Init ==
    /\ investissements \in Historiques(Transactions, MaxLen) \cup Scenarios
    /\ appel = AucunAppel
    /\ PerfAuRepos
    /\ revenus = <<>>
    /\ cache = <<>>

AppelQuantiteDisponible(s) ==
    /\ Pret
    /\ appel' = [op |-> "calculer_quantite_disponible", symbole |-> s,
                 retour |-> calculer_quantite_disponible(investissements, s)]
    /\ UNCHANGED <<cache, revenus, investissements, perfVars>>

AppelPositionsFifo(s) ==
    /\ Pret
    /\ appel' = [op |-> "calculer_positions_restantes_fifo", symbole |-> s,
                 retour |-> calculer_positions_restantes_fifo(investissements, s)]
    /\ UNCHANGED <<cache, revenus, investissements, perfVars>>

AppelRealizedPnl(s) ==
    /\ Pret
    /\ appel' = [op |-> "calculate_realized_pnl", symbole |-> s,
                 retour |-> calculate_realized_pnl(investissements, s)]
    /\ UNCHANGED <<cache, revenus, investissements, perfVars>>

Next ==
    \/ \E s \in Cibles : AppelQuantiteDisponible(s)
    \/ \E s \in Cibles : AppelPositionsFifo(s)
    \/ \E s \in Cibles : AppelRealizedPnl(s)

Spec == Init /\ [][Next]_vars

-----------------------------------------------------------------------------
(* SpecSaisie: valider_donnees_vente applied to a drawn table, for every   *)
(* form input                                                              *)

\* rows that differ in symbol, kind and quantity only
TransactionsSaisie ==
    UNION {{Achat(1, s, q, 1, q), Vente(1, s, q, 1, q)} :
              <<s, q>> \in {"AAPL", "aapl", "BTC"} \X (1..MaxQte)}

\* form inputs: amount and price at and above zero, quantity from 0 to one
\* more than any single row holds, symbol blank, present or absent
MontantsSaisis == {F(0), F(1)}

PrixSaisis == {F(0), F(1)}

QuantitesSaisies == {F(q) : q \in 0..(MaxQte + 1)}

SymbolesSaisis == {"", " ", "aapl", "XYZ"}

InitSaisie ==
    /\ investissements \in Historiques(TransactionsSaisie, MaxLen)
    /\ appel = AucunAppel
    /\ PerfAuRepos
    /\ revenus = <<>>
    /\ cache = <<>>

AppelValiderVente(montant, prix_unitaire, symbole, quantite_vente) ==
    /\ Pret
    /\ appel' = [op |-> "valider_donnees_vente", montant |-> montant,
                 prix_unitaire |-> prix_unitaire, symbole |-> symbole,
                 quantite_vente |-> quantite_vente,
                 retour |-> valider_donnees_vente(montant, prix_unitaire, symbole,
                                                  quantite_vente, investissements)]
    /\ UNCHANGED <<cache, revenus, investissements, perfVars>>

NextSaisie ==
    \E m \in MontantsSaisis, pu \in PrixSaisis, s \in SymbolesSaisis,
       q \in QuantitesSaisies : AppelValiderVente(m, pu, s, q)

SpecSaisie == InitSaisie /\ [][NextSaisie]_vars

-----------------------------------------------------------------------------
(* SpecCreation: the quantity derivation and the two record builders *)

MontantsCrees == {F(m) : m \in (0 - 1)..(MaxQte * MaxPrix)}

PrixCrees == {F(pu) : pu \in (0 - 1)..MaxPrix}

InitCreation ==
    /\ investissements = <<>>
    /\ appel = AucunAppel
    /\ PerfAuRepos
    /\ revenus = <<>>
    /\ cache = <<>>

AppelQuantiteInvestissement(montant, prix_unitaire) ==
    /\ Pret
    /\ appel' = [op |-> "calculer_quantite_investissement", montant |-> montant,
                 prix_unitaire |-> prix_unitaire,
                 retour |-> calculer_quantite_investissement(montant, prix_unitaire)]
    /\ UNCHANGED <<cache, revenus, investissements, perfVars>>

AppelCreerInvestissement(d, symbole, montant, prix_unitaire, hors_budget) ==
    /\ Pret
    /\ appel' = [op |-> "creer_donnees_investissement", date |-> d,
                 symbole |-> symbole, montant |-> montant,
                 prix_unitaire |-> prix_unitaire, hors_budget |-> hors_budget,
                 retour |-> creer_donnees_investissement(d, symbole, montant,
                                                         prix_unitaire, hors_budget)]
    /\ UNCHANGED <<cache, revenus, investissements, perfVars>>

AppelCreerVente(d, symbole, montant, prix_unitaire) ==
    /\ Pret
    /\ appel' = [op |-> "creer_donnees_vente", date |-> d,
                 symbole |-> symbole, montant |-> montant,
                 prix_unitaire |-> prix_unitaire,
                 retour |-> creer_donnees_vente(d, symbole, montant, prix_unitaire)]
    /\ UNCHANGED <<cache, revenus, investissements, perfVars>>

NextCreation ==
    \/ \E m \in MontantsCrees, pu \in PrixCrees : AppelQuantiteInvestissement(m, pu)
    \/ \E d \in 1..MaxDate, s \in {"aapl", "BTC"}, m \in MontantsCrees,
          pu \in PrixCrees, hb \in BOOLEAN :
              AppelCreerInvestissement(d, s, m, pu, hb)
    \/ \E d \in 1..MaxDate, s \in {"aapl", "BTC"}, m \in MontantsCrees,
          pu \in PrixCrees : AppelCreerVente(d, s, m, pu)

SpecCreation == InitCreation /\ [][NextCreation]_vars

-----------------------------------------------------------------------------
(* SpecPerf: calculate_investment_performance, step by step, on a drawn      *)
(* batch; get_current_price is the external lookup and answers a price or    *)
(* None as it pleases                                                        *)

\* test_integration.py:293-296  10 units at 10 and 5 units at 20
ScenarioPerformance ==
    <<Achat(1, "GAIN", 10, 10, 100), Achat(1, "LOSS", 5, 20, 100)>>

\* two rows of one symbol around a row of another
ScenarioTroisLignes ==
    <<Achat(1, "AAPL", 2, 1, 2), Vente(1, "BTC", 1, 2, 2), Vente(2, "AAPL", 1, 2, 2)>>

TransactionsPerf ==
    UNION {{Achat(1, s, q, pu, q * pu), Vente(1, s, q, pu, q * pu)} :
              <<s, q, pu>> \in {"AAPL", "aapl", "BTC"} \X (1..MaxQte) \X (1..MaxPrix)}
    \cup {Achat(1, "AAPL", 1, 1, 2), AvecType(Achat(1, "BTC", 1, 2, 2), "SaveBack")}

\* what get_current_price may answer for a symbol; test_integration.py:299-304
\* answers 15 for GAIN and LOSS
PrixPossibles(symbol) ==
    IF symbol \in {"GAIN", "LOSS"}
    THEN {None, F(15)}
    ELSE {None} \cup {F(c) : c \in 1..MaxPrixActuel}

InitPerf ==
    /\ investissements \in Historiques(TransactionsPerf, MaxBatch)
                              \cup {ScenarioPerformance, ScenarioTroisLignes}
    /\ appel = AucunAppel
    /\ PerfAuRepos
    /\ revenus = <<>>
    /\ cache = <<>>

\* price_service.py:203-209
CalculatePerformance ==
    /\ pc = "idle"
    /\ unique_symbols' \in SymbolesUniques(investissements)
    /\ symbol_prices' = <<>>
    /\ enriched_investments' = <<>>
    /\ appels_prix' = <<>>
    /\ pc' = "prix"
    /\ UNCHANGED <<cache, revenus, investissements, appel>>

\* price_service.py:210-211, one turn of the loop: the lookup answers prix
GetCurrentPrice(prix) ==
    /\ pc = "prix"
    /\ Len(appels_prix) < Len(unique_symbols)
    /\ LET symbol == unique_symbols[Len(appels_prix) + 1]
       IN  /\ prix \in PrixPossibles(symbol)
           /\ symbol_prices' = Affecter(symbol_prices, symbol, prix)
           /\ appels_prix' = Append(appels_prix, [symbol |-> symbol, prix |-> prix])
    /\ UNCHANGED <<cache, revenus, investissements, appel, pc, unique_symbols, enriched_investments>>

\* price_service.py:213-280, one turn of the loop
Enrichir ==
    /\ pc = "prix"
    /\ Len(appels_prix) = Len(unique_symbols)
    /\ Len(enriched_investments) < Len(investissements)
    /\ LET investment == investissements[Len(enriched_investments) + 1]
       IN  enriched_investments' =
               Append(enriched_investments,
                      EnrichirInvestissement(investment,
                                             symbol_prices[investment.symbole]))
    /\ UNCHANGED <<cache, revenus, investissements, appel, pc, unique_symbols, symbol_prices,
                   appels_prix>>

\* price_service.py:282
RetourPerformance ==
    /\ pc = "prix"
    /\ Len(appels_prix) = Len(unique_symbols)
    /\ Len(enriched_investments) = Len(investissements)
    /\ pc' = "fini"
    /\ UNCHANGED <<cache, revenus, investissements, appel, unique_symbols, symbol_prices,
                   appels_prix, enriched_investments>>

NextPerf ==
    \/ CalculatePerformance
    \/ \E prix \in {None} \cup {F(c) : c \in 1..MaxPrixActuel} \cup {F(15)} :
           GetCurrentPrice(prix)
    \/ Enrichir
    \/ RetourPerformance

SpecPerf == InitPerf /\ [][NextPerf]_vars

-----------------------------------------------------------------------------
(* SpecPortefeuille: the batch of SpecPerf, its enrichment handed to         *)
(* calculate_portfolio_summary as the stock list next to a crypto list, and  *)
(* the ledger functions called once, then once more, on the batch; every     *)
(* call leaves the caller's list as its stores leave it                      *)

\* the crypto list, enriched like the stock list: app.py:183-190
AvecPerformance(invs, prix) ==
    [i \in 1..Len(invs) |-> EnrichirInvestissement(invs[i], prix)]

ListesCrypto ==
    {<<>>}
    \cup {AvecPerformance(l, prix) :
            l \in {<<Achat(1, "BTC", 1, 1, 1)>>,
                   <<Achat(1, "BTC", 2, 1, 2), Vente(2, "BTC", 2, 2, 4)>>,
                   <<Achat(1, "btc", 2, 1, 2), Vente(2, "BTC", 1, 2, 2)>>},
            prix \in {None, F(2)}}

\* app.py:199-201
AppelPortfolioSummary(crypto_investments) ==
    /\ pc = "fini"
    /\ Pret
    /\ appel' = [op |-> "calculate_portfolio_summary",
                 crypto_investments |-> crypto_investments,
                 stock_investments |-> enriched_investments,
                 crypto_apres |-> investments_apres_asset_metrics(crypto_investments),
                 retour |-> calculate_portfolio_summary(crypto_investments,
                                                        enriched_investments)]
    /\ enriched_investments' = investments_apres_asset_metrics(enriched_investments)
    /\ UNCHANGED <<cache, revenus, investissements, pc, unique_symbols, symbol_prices, appels_prix>>

FonctionsLedger ==
    {"calculer_quantite_disponible", "calculer_positions_restantes_fifo",
     "calculate_realized_pnl"}

Resultat(op, invs, s) ==
    CASE op = "calculer_quantite_disponible" -> calculer_quantite_disponible(invs, s)
      [] op = "calculer_positions_restantes_fifo"
             -> calculer_positions_restantes_fifo(invs, s)
      [] op = "calculate_realized_pnl" -> calculate_realized_pnl(invs, s)

ListeApres(op, invs, s) ==
    CASE op = "calculer_quantite_disponible"
             -> investissements_apres_quantite_disponible(invs, s)
      [] op = "calculer_positions_restantes_fifo"
             -> investissements_apres_positions_fifo(invs, s)
      [] op = "calculate_realized_pnl" -> investments_apres_realized_pnl(invs, s)

PremierAppel(op, s) ==
    /\ pc = "idle"
    /\ Pret
    /\ appel' = [op |-> op, symbole |-> s,
                 retour |-> Resultat(op, investissements, s)]
    /\ investissements' = ListeApres(op, investissements, s)
    /\ pc' = "ledger"
    /\ UNCHANGED <<cache, revenus, unique_symbols, symbol_prices, appels_prix, enriched_investments>>

\* the same call again, on the list as the first call left it
SecondAppel ==
    /\ pc = "ledger"
    /\ "rappel" \notin DOMAIN appel
    /\ appel' = Update(appel, [rappel |-> Resultat(appel.op, investissements,
                                                   appel.symbole)])
    /\ investissements' = ListeApres(appel.op, investissements, appel.symbole)
    /\ UNCHANGED <<cache, revenus, perfVars>>

\* a lot of 2 sold in two sales of 1
ScenarioDeuxVentes ==
    <<Achat(1, "AAPL", 2, 1, 2), Vente(2, "AAPL", 1, 2, 2), Vente(3, "AAPL", 1, 2, 2)>>

InitPortefeuille ==
    /\ investissements \in Historiques(TransactionsPerf, MaxBatch)
                              \cup {ScenarioPerformance, ScenarioTroisLignes,
                                    ScenarioDeuxVentes}
    /\ appel = AucunAppel
    /\ PerfAuRepos
    /\ revenus = <<>>
    /\ cache = <<>>

NextPortefeuille ==
    \/ NextPerf
    \/ \E crypto_investments \in ListesCrypto :
           AppelPortfolioSummary(crypto_investments)
    \/ \E op \in FonctionsLedger, s \in Cibles : PremierAppel(op, s)
    \/ SecondAppel

SpecPortefeuille == InitPortefeuille /\ [][NextPortefeuille]_vars

-----------------------------------------------------------------------------
(* Vocabulary of the properties: what the claims say, stated on the raw      *)
(* transaction list and independently of the loops above                     *)

RECURSIVE SommeSeq(_)
SommeSeq(s) == IF s = <<>> THEN Zero ELSE FAdd(Head(s), SommeSeq(Tail(s)))

SansCasse(a, b) == Upper(a) = Upper(b)

EstUneVente(t) == "type_operation" \in DOMAIN t /\ t["type_operation"] = "Vente"

EstAchatDe(invs, s, i) == SansCasse(invs[i].symbole, s) /\ ~EstUneVente(invs[i])

EstVenteDe(invs, s, i) == SansCasse(invs[i].symbole, s) /\ EstUneVente(invs[i])

QteAchetee(invs, s) ==
    SommeSeq([i \in 1..Len(invs) |->
                 IF EstAchatDe(invs, s, i) THEN invs[i].quantite ELSE Zero])

QteVendue(invs, s) ==
    SommeSeq([i \in 1..Len(invs) |->
                 IF EstVenteDe(invs, s, i) THEN invs[i].quantite ELSE Zero])

\* chronological order, ties in list order
Precede(invs, k, i) ==
    \/ invs[k].date < invs[i].date
    \/ invs[k].date = invs[i].date /\ k < i

\* units bought before purchase i / sold before sale j, in chronological order
DebutAchat(invs, s, i) ==
    SommeSeq([k \in 1..Len(invs) |->
                 IF EstAchatDe(invs, s, k) /\ Precede(invs, k, i)
                 THEN invs[k].quantite ELSE Zero])

DebutVente(invs, s, j) ==
    SommeSeq([k \in 1..Len(invs) |->
                 IF EstVenteDe(invs, s, k) /\ Precede(invs, k, j)
                 THEN invs[k].quantite ELSE Zero])

\* FIFO as intervals of units: purchase i holds the units DebutAchat+1 ..
\* DebutAchat+quantite, sale j takes the units DebutVente+1 .. DebutVente+quantite;
\* the quantity of sale j matched against purchase i is the overlap
Apparie(invs, s, i, j) ==
    IF EstAchatDe(invs, s, i) /\ EstVenteDe(invs, s, j)
    THEN FMax(Zero,
              FSub(FMin(FAdd(DebutAchat(invs, s, i), invs[i].quantite),
                        FAdd(DebutVente(invs, s, j), invs[j].quantite)),
                   FMax(DebutAchat(invs, s, i), DebutVente(invs, s, j))))
    ELSE Zero

PnlFifoAttendu(invs, s) ==
    SommeSeq([i \in 1..Len(invs) |->
        SommeSeq([j \in 1..Len(invs) |->
            FMul(Apparie(invs, s, i, j),
                 FSub(invs[j].prix_unitaire, invs[i].prix_unitaire))])])

QuantitesPositives(invs, s) ==
    \A i \in 1..Len(invs) :
        SansCasse(invs[i].symbole, s) => FLt(Zero, invs[i].quantite)

NonSurvendu(invs, s) == FLe(QteVendue(invs, s), QteAchetee(invs, s))

Restantes(lots) == [i \in 1..Len(lots) |-> lots[i].quantite_restante]

AppelFifo == appel.op = "calculer_positions_restantes_fifo"

AppelDispo == appel.op = "calculer_quantite_disponible"

AppelPnl == appel.op = "calculate_realized_pnl"

-----------------------------------------------------------------------------
(* C1: calculer_positions_restantes_fifo returns the lots in ascending date  *)
(* order and depletes them strictly oldest-first: a lot has lost quantity    *)
(* only if every lot before it is at 0, so at most one lot is partially      *)
(* depleted; lots 100@10 then 50@20 with a sale of 120 give 0 and 30.        *)
C1_FifoPlusAncienDabord ==
    AppelFifo =>
        LET lots == appel.retour
        IN  /\ \A i, j \in 1..Len(lots) : i < j => lots[i].date <= lots[j].date
            /\ \A i, j \in 1..Len(lots) :
                   (i < j /\ FLt(lots[j].quantite_restante, lots[j].quantite_initiale))
                       => lots[i].quantite_restante = Zero
            /\ Cardinality({i \in 1..Len(lots) :
                               /\ FLt(Zero, lots[i].quantite_restante)
                               /\ FLt(lots[i].quantite_restante,
                                      lots[i].quantite_initiale)}) <= 1
            /\ (investissements = ScenarioDeuxLots /\ appel.symbole = "XYZ")
                   => Restantes(lots) = <<F(0), F(30)>>
            /\ (investissements = ScenarioMultiLots /\ appel.symbole = "XYZ")
                   => Restantes(lots) = <<F(0), F(30), F(30)>>

\* in a generated history, a depleted lot followed by a partially depleted one
C1_Temoin ==
    /\ AppelFifo
    /\ investissements \notin Scenarios
    /\ \E i, j \in 1..Len(appel.retour) :
           /\ i < j
           /\ appel.retour[i].quantite_restante = Zero
           /\ FLt(Zero, appel.retour[j].quantite_restante)
           /\ FLt(appel.retour[j].quantite_restante, appel.retour[j].quantite_initiale)

(* C2: calculate_realized_pnl returns as pnl_realise_montant the sum, over   *)
(* the portions matched by FIFO, of matched quantity * (sale price - lot     *)
(* price); 1600 for 100@10, 50@20, 30@30 sold 120@25; 50 and 50 % for 2@100  *)
(* sold 1@150.                                                               *)
C2_PnlRealiseFifo ==
    AppelPnl =>
        /\ appel.retour.pnl_realise_montant
               = PnlFifoAttendu(investissements, appel.symbole)
        /\ (investissements = ScenarioMultiLots /\ appel.symbole = "XYZ")
               => appel.retour.pnl_realise_montant = F(1600)
        /\ (investissements = ScenarioAllerRetour /\ appel.symbole = "aapl")
               => /\ appel.retour.pnl_realise_montant = F(50)
                  /\ appel.retour.pnl_realise_pourcentage = F(50)

\* in a generated history, one sale matched against two lots of different
\* prices, with a non-zero result
C2_Temoin ==
    /\ AppelPnl
    /\ investissements \notin Scenarios
    /\ appel.retour.pnl_realise_montant # Zero
    /\ \E i1, i2, j \in 1..Len(investissements) :
           /\ i1 # i2
           /\ investissements[i1].prix_unitaire # investissements[i2].prix_unitaire
           /\ FLt(Zero, Apparie(investissements, appel.symbole, i1, j))
           /\ FLt(Zero, Apparie(investissements, appel.symbole, i2, j))

(* C3: quantity conservation.  For a symbol whose quantities are all > 0 and *)
(* whose sales do not exceed its purchases, calculer_quantite_disponible     *)
(* returns purchases - sales, and the quantite_restante of the lots returned *)
(* by calculer_positions_restantes_fifo sum to the same value.               *)
C3_ConservationQuantite ==
    LET s == appel.symbole
        attendu == FSub(QteAchetee(investissements, s), QteVendue(investissements, s))
    IN  /\ (/\ AppelDispo
            /\ QuantitesPositives(investissements, s)
            /\ NonSurvendu(investissements, s))
               => appel.retour = attendu
        /\ (/\ AppelFifo
            /\ QuantitesPositives(investissements, s)
            /\ NonSurvendu(investissements, s))
               => SommeSeq(Restantes(appel.retour)) = attendu

\* in a generated history that is not oversold, two lots after a sale, with
\* something left
C3_Temoin ==
    /\ AppelFifo
    /\ investissements \notin Scenarios
    /\ QuantitesPositives(investissements, appel.symbole)
    /\ NonSurvendu(investissements, appel.symbole)
    /\ FLt(Zero, QteVendue(investissements, appel.symbole))
    /\ Len(appel.retour) >= 2
    /\ FLt(Zero, SommeSeq(Restantes(appel.retour)))

(* C4: calculer_quantite_disponible never returns a negative value: it       *)
(* returns max(0, purchases - sales) over the transactions whose symbol      *)
(* matches case-insensitively, every type other than 'Vente' (a missing one  *)
(* included) counting as a purchase.                                         *)
C4_DisponibleJamaisNegatif ==
    AppelDispo =>
        /\ FLe(Zero, appel.retour)
        /\ appel.retour = FMax(Zero, FSub(QteAchetee(investissements, appel.symbole),
                                          QteVendue(investissements, appel.symbole)))

\* an oversold symbol, with rows in both cases and of a typed purchase
C4_Temoin ==
    /\ AppelDispo
    /\ appel.retour = Zero
    /\ FLt(QteAchetee(investissements, appel.symbole),
           QteVendue(investissements, appel.symbole))
    /\ FLt(Zero, QteAchetee(investissements, appel.symbole))
    /\ \E i, j \in 1..Len(investissements) :
           /\ investissements[i].symbole # investissements[j].symbole
           /\ SansCasse(investissements[i].symbole, investissements[j].symbole)

AppelValider == appel.op = "valider_donnees_vente"

AppelDerivation ==
    appel.op \in {"calculer_quantite_investissement",
                  "creer_donnees_investissement", "creer_donnees_vente"}

\* what is available to sell, from the raw table
DisponibleAttendu(invs, s) ==
    FMax(Zero, FSub(QteAchetee(invs, s), QteVendue(invs, s)))

\* the quantity a derivation call returned, bare or inside the record
QuantiteDerivee ==
    IF appel.op = "calculer_quantite_investissement"
    THEN appel.retour.valeur
    ELSE appel.retour.valeur.quantite

(* C5: valider_donnees_vente returns a non-empty error list whenever the     *)
(* quantity exceeds the available quantity of the symbol (a symbol with no   *)
(* position included) and whenever the amount, the price or the quantity is  *)
(* <= 0 or the symbol is blank; it returns an empty list when all of them    *)
(* are positive, the symbol is not blank and the quantity is available.      *)
C5_ValidationVente ==
    AppelValider =>
        LET dispo == DisponibleAttendu(investissements, appel.symbole)
            blanc == appel.symbole \in {"", " "}
            defaut == \/ FLe(appel.montant, Zero)
                      \/ FLe(appel.prix_unitaire, Zero)
                      \/ FLe(appel.quantite_vente, Zero)
                      \/ blanc
        IN  /\ FLt(dispo, appel.quantite_vente) => Len(appel.retour) > 0
            /\ defaut => Len(appel.retour) > 0
            /\ (~defaut /\ FLe(appel.quantite_vente, dispo)) => appel.retour = <<>>

\* the whole position is sold after an earlier sale: accepted with no error
C5_Temoin ==
    /\ AppelValider
    /\ appel.retour = <<>>
    /\ appel.quantite_vente = DisponibleAttendu(investissements, appel.symbole)
    /\ FLt(Zero, QteVendue(investissements, appel.symbole))

(* C6 as claimed: the quantity derivation, bare or through the two record    *)
(* builders, raises ValueError whenever the unit price or the amount is      *)
(* non-positive and returns montant / prix_unitaire otherwise.               *)
C6_MontantOuPrixRefuse ==
    AppelDerivation =>
        IF FLe(appel.prix_unitaire, Zero) \/ FLe(appel.montant, Zero)
        THEN appel.retour = Leve(ValueError)
        ELSE /\ ~ALeve(appel.retour)
             /\ FMul(QuantiteDerivee, appel.prix_unitaire) = appel.montant

(* C6 amended: the quantity derivation, bare or through the two record       *)
(* builders, raises ValueError exactly when the unit price is non-positive;  *)
(* for a positive unit price it returns montant / prix_unitaire whatever the *)
(* sign of the amount.                                                       *)
C6_PrixSeulRefuse ==
    AppelDerivation =>
        IF FLe(appel.prix_unitaire, Zero)
        THEN appel.retour = Leve(ValueError)
        ELSE /\ ~ALeve(appel.retour)
             /\ FMul(QuantiteDerivee, appel.prix_unitaire) = appel.montant

\* a record built from a non-positive amount at a positive price
C6_Temoin ==
    /\ appel.op = "creer_donnees_vente"
    /\ FLe(appel.montant, Zero)
    /\ ~ALeve(appel.retour)
    /\ FLe(appel.retour.valeur.quantite, Zero)

\* the answer get_current_price gave for a symbol (asked once enrichment runs)
PrixRepondu(symbol) ==
    LET i == CHOOSE k \in 1..Len(appels_prix) : appels_prix[k].symbol = symbol
    IN  appels_prix[i].prix

SymbolesDuLot == {investissements[i].symbole : i \in 1..Len(investissements)}

SymbolesInterroges == {appels_prix[i].symbol : i \in 1..Len(appels_prix)}

\* the performance of a purchase at a price, as the claims state it
PerformanceAchat(inv, e, cp) ==
    /\ e.valeur_actuelle = FMul(inv.quantite, cp)
    /\ e.pnl_montant = FSub(e.valeur_actuelle, inv.montant)
    /\ FMul(e.pnl_pourcentage, inv.prix_unitaire)
           = FMul(FSub(cp, inv.prix_unitaire), F(100))
    /\ e.prix_actuel = cp
    /\ e.prix_recupere = TRUE

(* C7: calculate_investment_performance returns every purchase-like          *)
(* transaction whose symbol has a price with valeur_actuelle = quantite *    *)
(* price, pnl_montant = valeur_actuelle - montant, pnl_pourcentage = (price  *)
(* - prix_unitaire) / prix_unitaire * 100, prix_actuel = price and           *)
(* prix_recupere = True; 10 units at 10 priced 15 give +50 and +50 %, 5      *)
(* units at 20 priced 15 give -25 and -25 %.                                 *)
C7_PerformanceAchatAvecPrix ==
    \A i \in 1..Len(enriched_investments) :
        LET inv == investissements[i]
            e == enriched_investments[i]
            cp == PrixRepondu(inv.symbole)
        IN  (~EstUneVente(inv) /\ cp # None) =>
                /\ PerformanceAchat(inv, e, cp)
                /\ (inv = ScenarioPerformance[1] /\ cp = F(15))
                       => e.pnl_montant = F(50) /\ e.pnl_pourcentage = F(50)
                /\ (inv = ScenarioPerformance[2] /\ cp = F(15))
                       => e.pnl_montant = F(0 - 25) /\ e.pnl_pourcentage = F(0 - 25)

\* a generated batch returned with a purchase at a loss whose amount is not
\* quantity * price
C7_Temoin ==
    /\ pc = "fini"
    /\ \E i \in 1..Len(enriched_investments) :
           /\ ~EstUneVente(investissements[i])
           /\ enriched_investments[i].prix_recupere
           /\ FLt(enriched_investments[i].pnl_montant, Zero)
           /\ investissements[i].montant
                  # FMul(investissements[i].quantite, investissements[i].prix_unitaire)

(* C8: calculate_investment_performance returns every 'Vente' transaction    *)
(* with valeur_actuelle = 0, pnl_montant = 0 and pnl_pourcentage = 0,        *)
(* whether or not its symbol has a price.                                    *)
C8_VenteSansPnl ==
    \A i \in 1..Len(enriched_investments) :
        EstUneVente(investissements[i]) =>
            /\ enriched_investments[i].valeur_actuelle = Zero
            /\ enriched_investments[i].pnl_montant = Zero
            /\ enriched_investments[i].pnl_pourcentage = Zero

\* a sale returned with a current price that differs from its own price
C8_Temoin ==
    /\ pc = "fini"
    /\ \E i \in 1..Len(enriched_investments) :
           /\ EstUneVente(investissements[i])
           /\ enriched_investments[i].prix_recupere
           /\ enriched_investments[i].prix_actuel # investissements[i].prix_unitaire

(* C9: when the lookup answers None for a symbol, the purchases of that      *)
(* symbol are returned with valeur_actuelle = montant, pnl_montant = 0,      *)
(* pnl_pourcentage = 0, prix_actuel None and prix_recupere False; the output *)
(* has one entry per input transaction, in input order, with every original  *)
(* field kept, and in a batch priced in part the priced purchases are        *)
(* computed from their own price alone.                                      *)
C9_PrixManquant ==
    /\ \A i \in 1..Len(enriched_investments) :
           LET inv == investissements[i]
               e == enriched_investments[i]
               cp == PrixRepondu(inv.symbole)
           IN  /\ \A k \in DOMAIN inv : k \in DOMAIN e /\ e[k] = inv[k]
               /\ (~EstUneVente(inv) /\ cp = None) =>
                      /\ e.valeur_actuelle = inv.montant
                      /\ e.pnl_montant = Zero
                      /\ e.pnl_pourcentage = Zero
                      /\ e.prix_actuel = None
                      /\ e.prix_recupere = FALSE
               /\ (/\ ~EstUneVente(inv)
                   /\ cp # None
                   /\ \E k \in 1..Len(appels_prix) : appels_prix[k].prix = None)
                      => PerformanceAchat(inv, e, cp)
    /\ Len(enriched_investments) <= Len(investissements)
    /\ pc = "fini" => Len(enriched_investments) = Len(investissements)

\* a batch returned with a purchase without a price next to a priced purchase
C9_Temoin ==
    /\ pc = "fini"
    /\ \E i, j \in 1..Len(enriched_investments) :
           /\ ~EstUneVente(investissements[i])
           /\ ~EstUneVente(investissements[j])
           /\ ~enriched_investments[i].prix_recupere
           /\ enriched_investments[j].prix_recupere
           /\ FLt(Zero, enriched_investments[j].pnl_montant)

-----------------------------------------------------------------------------
\* the five fields of the realized P&L record
ChampsPnl ==
    {"pnl_realise_montant", "pnl_realise_pourcentage", "quantite_vendue_totale",
     "prix_moyen_vente", "prix_moyen_achat_vendu"}

SansVente(invs, s) == \A i \in 1..Len(invs) : ~EstVenteDe(invs, s, i)

(* C15: calculate_realized_pnl on a symbol without any 'Vente' row           *)
(* (purchases only, no row of the symbol, or an empty list) returns a record *)
(* of exactly five fields, pnl_realise_montant, pnl_realise_pourcentage,     *)
(* quantite_vendue_totale, prix_moyen_vente and prix_moyen_achat_vendu, all  *)
(* equal to 0.                                                               *)
C15_SansVenteToutZero ==
    (AppelPnl /\ SansVente(investissements, appel.symbole)) =>
        /\ DOMAIN appel.retour = ChampsPnl
        /\ \A k \in ChampsPnl : appel.retour[k] = Zero

\* purchases of the symbol and sales of another symbol only
C15_Temoin ==
    /\ AppelPnl
    /\ SansVente(investissements, appel.symbole)
    /\ \E i \in 1..Len(investissements) :
           EstAchatDe(investissements, appel.symbole, i)
    /\ \E i \in 1..Len(investissements) : EstUneVente(investissements[i])

\* proceeds of the sales of s, and cost of the portions FIFO matches
MontantVendu(invs, s) ==
    SommeSeq([i \in 1..Len(invs) |->
                 IF EstVenteDe(invs, s, i) THEN invs[i].montant ELSE Zero])

CoutApparie(invs, s) ==
    SommeSeq([i \in 1..Len(invs) |->
        SommeSeq([j \in 1..Len(invs) |->
            FMul(Apparie(invs, s, i, j), invs[i].prix_unitaire)])])

(* C17: calculate_realized_pnl with at least one sale returns                *)
(* quantite_vendue_totale = the nominal sum of the sale quantities, even     *)
(* when lots ran out, prix_moyen_vente = sum of sale montant / that          *)
(* quantity, prix_moyen_achat_vendu = matched cost basis / that quantity,    *)
(* pnl_realise_pourcentage = pnl_realise_montant / matched cost basis * 100, *)
(* or 0 when the cost basis is zero, and a pnl_realise_montant made of the   *)
(* matched portions only.                                                    *)
C17_MoyennesEtPourcentage ==
    (AppelPnl /\ ~SansVente(investissements, appel.symbole)) =>
        LET r == appel.retour
            qv == QteVendue(investissements, appel.symbole)
            cout == CoutApparie(investissements, appel.symbole)
        IN  /\ r.quantite_vendue_totale = qv
            /\ qv # Zero =>
                   /\ r.prix_moyen_vente
                          = FDiv(MontantVendu(investissements, appel.symbole), qv)
                   /\ r.prix_moyen_achat_vendu = FDiv(cout, qv)
            /\ r.pnl_realise_pourcentage
                   = IF cout = Zero THEN Zero
                     ELSE FMul(FDiv(r.pnl_realise_montant, cout), F(100))
            /\ r.pnl_realise_montant
                   = PnlFifoAttendu(investissements, appel.symbole)

\* a generated history that sells more than it bought, at a profit
C17_Temoin ==
    /\ AppelPnl
    /\ investissements \notin Scenarios
    /\ FLt(Zero, QteAchetee(investissements, appel.symbole))
    /\ FLt(QteAchetee(investissements, appel.symbole),
           QteVendue(investissements, appel.symbole))
    /\ FLt(Zero, appel.retour.pnl_realise_pourcentage)
    /\ appel.retour.prix_moyen_achat_vendu # appel.retour.prix_moyen_vente

-----------------------------------------------------------------------------
\* the purchases of s that carry a quantity, and their chronological rank
EstLotDe(invs, s, i) == EstAchatDe(invs, s, i) /\ FLt(Zero, invs[i].quantite)

LotsDe(invs, s) == {i \in 1..Len(invs) : EstLotDe(invs, s, i)}

RangLot(invs, s, i) ==
    1 + Cardinality({k \in LotsDe(invs, s) : Precede(invs, k, i)})

(* C16: when the quantity sold of a symbol exceeds the quantity purchased,   *)
(* calculer_positions_restantes_fifo returns every lot with                  *)
(* quantite_restante = 0 and montant_restant = 0, the excess being dropped;  *)
(* in every history there is one lot per purchase, in chronological order,   *)
(* with 0 <= quantite_restante <= quantite_initiale and quantite_initiale,   *)
(* montant_initial, prix_unitaire and date those of the purchase.            *)
C16_SurventeAbsorbee ==
    AppelFifo =>
        LET lots == appel.retour
            s == appel.symbole
        IN  /\ FLt(QteAchetee(investissements, s), QteVendue(investissements, s))
                   => \A k \in 1..Len(lots) :
                          /\ lots[k].quantite_restante = Zero
                          /\ lots[k].montant_restant = Zero
            /\ Len(lots) = Cardinality(LotsDe(investissements, s))
            /\ \A i \in LotsDe(investissements, s) :
                   LET lot == lots[RangLot(investissements, s, i)]
                   IN  /\ lot.quantite_initiale = investissements[i].quantite
                       /\ lot.montant_initial = investissements[i].montant
                       /\ lot.prix_unitaire = investissements[i].prix_unitaire
                       /\ lot.date = investissements[i].date
                       /\ FLe(Zero, lot.quantite_restante)
                       /\ FLe(lot.quantite_restante, lot.quantite_initiale)

\* a generated history with two lots and a sale larger than both together
C16_Temoin ==
    /\ AppelFifo
    /\ investissements \notin Scenarios
    /\ Len(appel.retour) >= 2
    /\ FLt(QteAchetee(investissements, appel.symbole),
           QteVendue(investissements, appel.symbole))

(* C20 as stated: every lot returned by calculer_positions_restantes_fifo    *)
(* has montant_restant = quantite_restante * prix_unitaire, whether          *)
(* depleted, partially depleted or untouched.                                *)
C20_MontantRestantToujoursRecalcule ==
    AppelFifo =>
        \A k \in 1..Len(appel.retour) :
            appel.retour[k].montant_restant
                = FMul(appel.retour[k].quantite_restante,
                       appel.retour[k].prix_unitaire)

(* C20 amended: a lot that lost quantity has montant_restant =               *)
(* quantite_restante * prix_unitaire; an untouched lot keeps the montant of  *)
(* its purchase as montant_restant; 2 @ 100 then a sale of 1 leaves          *)
(* quantite_restante 1 and montant_restant 100.                              *)
C20_MontantRestantRecalculeSiEntame ==
    AppelFifo =>
        /\ \A k \in 1..Len(appel.retour) :
               LET lot == appel.retour[k]
               IN  IF lot.quantite_restante # lot.quantite_initiale
                   THEN lot.montant_restant
                            = FMul(lot.quantite_restante, lot.prix_unitaire)
                   ELSE lot.montant_restant = lot.montant_initial
        /\ (investissements = ScenarioAllerRetour /\ appel.symbole = "aapl")
               => /\ appel.retour[1].quantite_restante = F(1)
                  /\ appel.retour[1].montant_restant = F(100)

\* a partially depleted lot next to an untouched lot whose amount is not
\* quantity * price
C20_Temoin ==
    /\ AppelFifo
    /\ \E k, l \in 1..Len(appel.retour) :
           /\ FLt(Zero, appel.retour[k].quantite_restante)
           /\ FLt(appel.retour[k].quantite_restante, appel.retour[k].quantite_initiale)
           /\ appel.retour[l].quantite_restante = appel.retour[l].quantite_initiale
           /\ appel.retour[l].montant_restant
                  # FMul(appel.retour[l].quantite_restante, appel.retour[l].prix_unitaire)

-----------------------------------------------------------------------------
AppelResume == appel.op = "calculate_portfolio_summary"

Rappele == "rappel" \in DOMAIN appel

(* C18: calling calculer_positions_restantes_fifo, or calculate_realized_pnl, *)
(* twice in a row on the same list and symbol yields identical results: the  *)
(* first call leaves nothing behind that changes what the second returns.    *)
C18_Idempotence ==
    (Rappele /\ appel.op \in {"calculer_positions_restantes_fifo",
                              "calculate_realized_pnl"})
        => appel.rappel = appel.retour

\* calculate_realized_pnl called twice where the first call wrote a reduced
\* quantity into the lot it left partially matched
C18_Temoin ==
    /\ Rappele
    /\ AppelPnl
    /\ appel.retour.pnl_realise_montant # Zero
    /\ \E i, j, k \in 1..Len(investissements) :
           /\ j # k
           /\ EstAchatDe(investissements, appel.symbole, i)
           /\ EstVenteDe(investissements, appel.symbole, j)
           /\ EstVenteDe(investissements, appel.symbole, k)
           /\ Precede(investissements, j, k)
           /\ FLt(investissements[j].quantite, investissements[i].quantite)

(* C19: calculer_quantite_disponible, calculer_positions_restantes_fifo,     *)
(* calculate_realized_pnl, calculate_investment_performance and              *)
(* calculate_portfolio_summary never change the list they are given: same    *)
(* length, same order, and in every record the same fields with the same     *)
(* values; no quantity is decremented, no performance field is added.        *)
C19_EntreeIntacte ==
    [][/\ investissements' = investissements
       /\ (AppelResume' /\ ~AppelResume) =>
              /\ enriched_investments' = enriched_investments
              /\ appel'.crypto_apres = appel'.crypto_investments]_vars

\* a summary returned for two lists that both hold a position sold in part
C19_Temoin ==
    /\ AppelResume
    /\ appel.retour.bourse.pnl_realise # Zero
    /\ appel.retour.crypto.pnl_realise # Zero
    /\ appel.retour.bourse.valeur_actuelle # Zero

-----------------------------------------------------------------------------
\* the two classes of a summary: the list handed over and the metrics returned
Classes ==
    {[liste |-> appel.crypto_investments, metriques |-> appel.retour.crypto],
     [liste |-> appel.stock_investments, metriques |-> appel.retour.bourse]}

ChampsMetriques ==
    {"valeur_initiale", "valeur_actuelle", "pnl_montant", "pnl_pourcentage",
     "pnl_realise", "pnl_non_realise"}

\* sum of f over the finite set S
RECURSIVE SommeSur(_, _)
SommeSur(S, f) ==
    IF S = {}
    THEN Zero
    ELSE LET x == CHOOSE y \in S : TRUE
         IN  FAdd(f[x], SommeSur(S \ {x}, f))

\* a symbol that was bought and whose whole purchased quantity has been sold
Soldee(l, s) ==
    /\ FLt(Zero, QteAchetee(l, s))
    /\ FLe(QteAchetee(l, s), QteVendue(l, s))

ValeurDesPositionsOuvertes(l) ==
    SommeSeq([i \in 1..Len(l) |->
                 IF ~EstUneVente(l[i]) /\ ~Soldee(l, l[i].symbole)
                 THEN l[i].valeur_actuelle ELSE Zero])

(* C11: in calculate_portfolio_summary the valeur_actuelle of a class is the *)
(* sum of the valuations of its purchase rows, where a symbol whose          *)
(* purchased quantity has been entirely sold contributes zero.               *)
C11_PositionSoldeeSansValeur ==
    AppelResume =>
        \A c \in Classes :
            c.metriques.valeur_actuelle = ValeurDesPositionsOuvertes(c.liste)

SymbolesSansCasse(l) == {Upper(l[i].symbole) : i \in 1..Len(l)}

(* C12: in calculate_portfolio_summary the pnl_realise of a class is the sum *)
(* of the realized P&L of every distinct symbol of the class, symbols being  *)
(* compared after upper-casing and each symbol counted exactly once.         *)
C12_PnlRealiseUneFoisParSymbole ==
    AppelResume =>
        \A c \in Classes :
            c.metriques.pnl_realise
                = SommeSur(SymbolesSansCasse(c.liste),
                           [s \in SymbolesSansCasse(c.liste) |->
                               PnlFifoAttendu(c.liste, s)])

MontantDesAchats(l) ==
    SommeSeq([i \in 1..Len(l) |->
                 IF EstUneVente(l[i]) THEN Zero ELSE l[i].montant])

\* the relations between the fields of one summary
MetriquesCoherentes(m) ==
    /\ m.pnl_non_realise = FSub(m.valeur_actuelle, m.valeur_initiale)
    /\ m.pnl_montant = FAdd(m.pnl_realise, m.pnl_non_realise)
    /\ m.pnl_pourcentage
           = IF m.valeur_initiale = Zero
             THEN Zero
             ELSE FMul(FDiv(m.pnl_montant, m.valeur_initiale), F(100))

(* C13: in every class summary and in the total of                           *)
(* calculate_portfolio_summary, pnl_non_realise = valeur_actuelle -          *)
(* valeur_initiale, pnl_montant = pnl_realise + pnl_non_realise and          *)
(* pnl_pourcentage = pnl_montant / valeur_initiale * 100, 0 when             *)
(* valeur_initiale is 0; the valeur_initiale of a class is the sum of the    *)
(* montant of its purchases only; every other field of the total is the sum  *)
(* of the two class fields, its percentage being recomputed from the sums;   *)
(* +50 and -25 total 25.                                                     *)
C13_RelationsDuResume ==
    AppelResume =>
        LET r == appel.retour
        IN  /\ \A c \in Classes :
                   /\ c.metriques.valeur_initiale = MontantDesAchats(c.liste)
                   /\ MetriquesCoherentes(c.metriques)
            /\ MetriquesCoherentes(r.total)
            /\ \A k \in ChampsMetriques \ {"pnl_pourcentage"} :
                   r.total[k] = FAdd(r.crypto[k], r.bourse[k])
            /\ (/\ investissements = ScenarioPerformance
                /\ appel.crypto_investments = <<>>
                /\ \A i \in 1..2 : appel.stock_investments[i].prix_actuel = F(15))
                   => r.total.pnl_montant = F(25)

\* two classes with different percentages, neither of them zero
C13_Temoin ==
    /\ AppelResume
    /\ appel.retour.crypto.pnl_pourcentage # Zero
    /\ appel.retour.bourse.pnl_pourcentage # Zero
    /\ appel.retour.crypto.pnl_pourcentage # appel.retour.bourse.pnl_pourcentage
    /\ appel.retour.bourse.pnl_realise # Zero
    /\ \E i \in 1..Len(appel.stock_investments) :
           EstUneVente(appel.stock_investments[i])

(* C14: calculate_portfolio_summary with an empty list for one class returns *)
(* for that class the six numeric fields, all 0, and a total equal field by  *)
(* field to the summary of the other class.                                  *)
C14_ClasseVide ==
    AppelResume =>
        LET r == appel.retour
            Vide(m) == DOMAIN m = ChampsMetriques /\ \A k \in ChampsMetriques : m[k] = Zero
        IN  /\ appel.crypto_investments = <<>>
                   => Vide(r.crypto) /\ \A k \in ChampsMetriques : r.total[k] = r.bourse[k]
            /\ appel.stock_investments = <<>>
                   => Vide(r.bourse) /\ \A k \in ChampsMetriques : r.total[k] = r.crypto[k]

\* no crypto, and stocks with a result that is not zero
C14_Temoin ==
    /\ AppelResume
    /\ appel.crypto_investments = <<>>
    /\ appel.stock_investments # <<>>
    /\ appel.retour.total.pnl_montant # Zero
    /\ appel.retour.total.pnl_pourcentage # Zero

-----------------------------------------------------------------------------
(* C21: calculer_positions_restantes_fifo returns exactly one lot per        *)
(* purchase of the symbol with a quantity > 0, depleted lots included, by    *)
(* ascending date, purchases of one date in their order in the list; sales   *)
(* are matched in that same order.                                           *)
C21_UnLotParAchatOrdreStable ==
    AppelFifo =>
        LET lots == appel.retour
            s == appel.symbole
        IN  /\ Len(lots) = Cardinality(LotsDe(investissements, s))
            /\ \A k, l \in 1..Len(lots) :
                   k < l => /\ lots[k].date <= lots[l].date
                            /\ FLt(lots[l].quantite_restante, lots[l].quantite_initiale)
                                   => lots[k].quantite_restante = Zero
            /\ \A i, j \in LotsDe(investissements, s) :
                   (i < j /\ investissements[i].date = investissements[j].date)
                       => RangLot(investissements, s, i) < RangLot(investissements, s, j)
            /\ \A i \in LotsDe(investissements, s) :
                   LET lot == lots[RangLot(investissements, s, i)]
                   IN  /\ lot.date = investissements[i].date
                       /\ lot.prix_unitaire = investissements[i].prix_unitaire
                       /\ lot.quantite_initiale = investissements[i].quantite
                       /\ lot.montant_initial = investissements[i].montant

\* two lots of one date and different prices, the first depleted, the second not
C21_Temoin ==
    /\ AppelFifo
    /\ investissements \notin Scenarios
    /\ Len(appel.retour) >= 2
    /\ appel.retour[1].date = appel.retour[2].date
    /\ appel.retour[1].prix_unitaire # appel.retour[2].prix_unitaire
    /\ appel.retour[1].quantite_restante = Zero
    /\ FLt(Zero, appel.retour[2].quantite_restante)

\* the pairs purchase, sale that FIFO matches, and the quantity matched in all
Paires(invs, s) ==
    {p \in (1..Len(invs)) \X (1..Len(invs)) : FLt(Zero, Apparie(invs, s, p[1], p[2]))}

QteApparie(invs, s) ==
    SommeSeq([i \in 1..Len(invs) |->
        SommeSeq([j \in 1..Len(invs) |-> Apparie(invs, s, i, j)])])

Marge(invs, p) == FSub(invs[p[2]].prix_unitaire, invs[p[1]].prix_unitaire)

(* C22: when every sale of a symbol is priced strictly above every lot it is *)
(* matched against, and something is matched, calculate_realized_pnl returns *)
(* a pnl_realise_montant > 0; strictly below, < 0; with one margin per unit  *)
(* throughout, the margin times the matched quantity: 15 per unit for units  *)
(* bought at 10 and sold at 25, 50 for 0.005 BTC bought at 40000 and sold at *)
(* 50000.                                                                    *)
C22_SigneDuPnlRealise ==
    AppelPnl =>
        LET invs == investissements
            s == appel.symbole
            pnl == appel.retour.pnl_realise_montant
        IN  /\ (Paires(invs, s) # {}
                  /\ \A p \in Paires(invs, s) : FLt(Zero, Marge(invs, p)))
                   => FLt(Zero, pnl)
            /\ (Paires(invs, s) # {}
                  /\ \A p \in Paires(invs, s) : FLt(Marge(invs, p), Zero))
                   => FLt(pnl, Zero)
            /\ \A p \in Paires(invs, s) :
                   (\A q \in Paires(invs, s) : Marge(invs, q) = Marge(invs, p))
                       => pnl = FMul(Marge(invs, p), QteApparie(invs, s))
            /\ (invs = ScenarioMarge /\ s = "XYZ") => pnl = FMul(F(15), F(4))
            /\ (invs = ScenarioCrypto /\ s = "BTC") => pnl = F(50)

\* a generated history whose sales, all below cost, are matched against two lots
C22_Temoin ==
    /\ AppelPnl
    /\ investissements \notin Scenarios
    /\ \A p \in Paires(investissements, appel.symbole) :
           FLt(Marge(investissements, p), Zero)
    /\ \E p, q \in Paires(investissements, appel.symbole) : p[1] # q[1]
    /\ FLt(appel.retour.pnl_realise_montant, Zero)

\* the rows of s alone, in the order of the list
Projection(invs, s) ==
    LET Garde(t) == SansCasse(t.symbole, s)
    IN  SelectSeq(invs, Garde)

(* C26: the rows of other symbols never change the result for a symbol:      *)
(* calculer_quantite_disponible, calculer_positions_restantes_fifo and       *)
(* calculate_realized_pnl return for S what they return on the rows of S     *)
(* alone, so two lists with the same rows of S in the same order agree.      *)
C26_AutresSymbolesSansEffet ==
    LET seuls == Projection(investissements, appel.symbole)
    IN  /\ AppelDispo
               => appel.retour = calculer_quantite_disponible(seuls, appel.symbole)
        /\ AppelFifo
               => appel.retour = calculer_positions_restantes_fifo(seuls, appel.symbole)
        /\ AppelPnl
               => appel.retour = calculate_realized_pnl(seuls, appel.symbole)

\* a purchase and a sale of the symbol around a row of another symbol
C26_Temoin ==
    /\ AppelFifo
    /\ Len(investissements) = 3
    /\ EstAchatDe(investissements, appel.symbole, 1)
    /\ ~SansCasse(investissements[2].symbole, appel.symbole)
    /\ EstUneVente(investissements[2])
    /\ EstVenteDe(investissements, appel.symbole, 3)
    /\ Len(appel.retour) = 1

\* the cost of what calculer_positions_restantes_fifo has taken from its lots
CoutDesLotsEntames(lots) ==
    SommeSeq([k \in 1..Len(lots) |->
        FMul(FSub(lots[k].quantite_initiale, lots[k].quantite_restante),
             lots[k].prix_unitaire)])

(* C27: the two FIFO walks agree: what calculate_realized_pnl matches        *)
(* against each purchase is quantite_initiale - quantite_restante of the lot *)
(* of the same rank returned by calculer_positions_restantes_fifo, and its   *)
(* matched cost basis, prix_moyen_achat_vendu * quantite_vendue_totale, is   *)
(* the sum over the lots of (quantite_initiale - quantite_restante) *        *)
(* prix_unitaire, oversold histories and purchases of one date included.     *)
C27_DeuxFifoDAccord ==
    AppelPnl =>
        LET lots == calculer_positions_restantes_fifo(investissements, appel.symbole)
            associees == quantites_associees(investissements, appel.symbole)
            utiles == {k \in 1..Len(associees) : FLt(Zero, associees[k].quantite)}
            Rang(k) == Cardinality({l \in utiles : l <= k})
        IN  /\ Len(lots) = Cardinality(utiles)
            /\ \A k \in utiles :
                   /\ lots[Rang(k)].prix_unitaire = associees[k].prix_unitaire
                   /\ associees[k].associee
                          = FSub(lots[Rang(k)].quantite_initiale,
                                 lots[Rang(k)].quantite_restante)
            /\ \A k \in (1..Len(associees)) \ utiles : associees[k].associee = Zero
            /\ FMul(appel.retour.prix_moyen_achat_vendu,
                    appel.retour.quantite_vendue_totale)
                   = CoutDesLotsEntames(lots)

\* an oversold history whose two purchases have one date and different prices
C27_Temoin ==
    /\ AppelPnl
    /\ investissements \notin Scenarios
    /\ FLt(QteAchetee(investissements, appel.symbole),
           QteVendue(investissements, appel.symbole))
    /\ \E i, j \in LotsDe(investissements, appel.symbole) :
           /\ i < j
           /\ investissements[i].date = investissements[j].date
           /\ investissements[i].prix_unitaire # investissements[j].prix_unitaire
    /\ FLt(Zero, appel.retour.prix_moyen_achat_vendu)

\* the list with every sale dated after every purchase, the sales keeping
\* their dates relative to one another
VentesApresAchats(invs) ==
    [i \in 1..Len(invs) |->
        IF EstUneVente(invs[i])
        THEN [invs[i] EXCEPT !.date = @ + MaxDate + 1]
        ELSE invs[i]]

(* C29: FIFO matching never compares the date of a sale with the date of a   *)
(* lot: calculer_positions_restantes_fifo and calculate_realized_pnl return  *)
(* what they return when every sale is dated after every purchase, the sales *)
(* keeping their order, so a sale dated before a purchase consumes that lot  *)
(* once the earlier lots are exhausted.                                      *)
C29_DateDeVenteSansEffet ==
    /\ AppelFifo
           => appel.retour = calculer_positions_restantes_fifo(
                                 VentesApresAchats(investissements), appel.symbole)
    /\ AppelPnl
           => appel.retour = calculate_realized_pnl(
                                 VentesApresAchats(investissements), appel.symbole)

\* every sale of the symbol is dated before a lot that has lost quantity
C29_Temoin ==
    /\ AppelFifo
    /\ \E k \in 1..Len(appel.retour) :
           /\ FLt(appel.retour[k].quantite_restante, appel.retour[k].quantite_initiale)
           /\ \A j \in 1..Len(investissements) :
                  EstVenteDe(investissements, appel.symbole, j)
                      => investissements[j].date < appel.retour[k].date

-----------------------------------------------------------------------------
(* Income and budget: business_logic.py:9-85 and the 'Enregistrer Revenu'    *)
(* flow of app.py.  A period is the sequence of the characters of the        *)
(* Python string.  round() is computed on the exact product: the inputs      *)
(* drawn below have no product halfway between two hundredths, where the     *)
(* binary representation of the float would decide.                          *)

MaxRevenus == 3    \* rows the table "revenus" may hold

RECURSIVE Puissance10(_)
Puissance10(n) == IF n = 0 THEN 1 ELSE 10 * Puissance10(n - 1)

\* Python floor division of the fraction x
Plancher(x) == x[1] \div x[2]

\* round(x, ndigits): to the nearest multiple of 10^-ndigits, halves to even
round(x, ndigits) ==
    LET y == FMul(x, F(Puissance10(ndigits)))
        bas == Plancher(y)
        reste == FSub(y, F(bas))
        demi == Frac(1, 2)
        k == IF FLt(reste, demi) THEN bas
             ELSE IF FLt(demi, reste) THEN bas + 1
             ELSE IF bas % 2 = 0 THEN bas ELSE bas + 1
    IN  Frac(k, Puissance10(ndigits))

\* math.ceil(x), an int
ceil(x) == F(-((-x[1]) \div x[2]))

Chiffre(n) == <<"0", "1", "2", "3", "4", "5", "6", "7", "8", "9">>[n + 1]

\* f"{n}" of an int n >= 0
RECURSIVE Decimal(_)
Decimal(n) ==
    IF n < 10 THEN <<Chiffre(n)>> ELSE Decimal(n \div 10) \o <<Chiffre(n % 10)>>

\* f"{n:02d}": at least two characters, zeros on the left
Decimal02(n) == IF Len(Decimal(n)) < 2 THEN <<"0">> \o Decimal(n) ELSE Decimal(n)

calculer_investissements_automatiques(revenu_net) ==
    [montant_investissement_bourse |-> round(FMul(revenu_net, Frac(10, 100)), 2),
     montant_investissement_crypto |-> round(FMul(revenu_net, Frac(10, 100)), 2)]

\* mutant: the month as written by f"{mois}"
creer_periode_sans_zero(annee, mois) == Decimal(annee) \o <<"-">> \o Decimal(mois)

creer_periode(annee, mois) == Decimal(annee) \o <<"-">> \o Decimal02(mois)

verifier_periode_existante(liste, periode) ==
    \E k \in 1..Len(liste) : liste[k].periode = periode

creer_donnees_revenu(mois, annee, montant) ==
    LET periode == creer_periode(annee, mois)
        auto == calculer_investissements_automatiques(montant)
    IN  [mois |-> mois, annee |-> annee, periode |-> periode, montant |-> montant,
         investissement_disponible_bourse |-> auto.montant_investissement_bourse,
         investissement_disponible_crypto |-> auto.montant_investissement_crypto]

RECURSIVE sum(_)
sum(valeurs) ==
    IF Len(valeurs) = 0 THEN Zero
    ELSE FAdd(sum(SubSeq(valeurs, 1, Len(valeurs) - 1)), valeurs[Len(valeurs)])

calculer_budget_disponible(liste) ==
    LET budget_bourse_brut ==
            sum([k \in 1..Len(liste) |-> liste[k].investissement_disponible_bourse])
        budget_crypto_brut ==
            sum([k \in 1..Len(liste) |-> liste[k].investissement_disponible_crypto])
        budget_bourse == ceil(budget_bourse_brut)
        budget_crypto == ceil(budget_crypto_brut)
        budget_total == FAdd(budget_bourse, budget_crypto)
    IN  <<budget_bourse, budget_crypto, budget_total>>

\* app.py:29-39  the tables as read, or empty lists when a select raises
load_data(lecture, table_revenus, table_bourse) ==
    IF lecture
    THEN [revenus |-> table_revenus, bourse |-> table_bourse]
    ELSE [revenus |-> <<>>, bourse |-> <<>>]

-----------------------------------------------------------------------------
(* SpecRevenus: one session of the application submitting incomes, and the   *)
(* income functions applied to drawn arguments and to the stored rows.       *)

\* the widgets of app.py:74-106: an int >= 0, a month, a year
SaisiesRevenuNet == {0, 1, 1234, 3000}

MoisPossibles == {2, 11}

AnneesPossibles == {2024, 2025}

\* amounts handed to creer_donnees_revenu
MontantsRevenu == {F(3000), F(5000), F(1), Frac(123456, 100), Frac(999, 100)}

InitRevenus ==
    /\ revenus = <<>>
    /\ cache = <<>>
    /\ investissements = <<>>
    /\ appel = AucunAppel
    /\ PerfAuRepos

\* app.py:64 and 108-143  one run of the script with the button pressed;
\* lecture: load_data read the tables; insertion: the insert did not raise
EnregistrerRevenu(revenu_net, mois_revenu, annee_revenu, lecture, insertion) ==
    /\ Len(revenus) < MaxRevenus
    /\ LET data == load_data(lecture, revenus, investissements)
           periode_actuelle == creer_periode(annee_revenu, mois_revenu)
           periode_existante ==
               \E k \in 1..Len(data.revenus) : data.revenus[k].periode = periode_actuelle
           montant_investissement_bourse == round(FMul(F(revenu_net), Frac(10, 100)), 2)
           montant_investissement_crypto == round(FMul(F(revenu_net), Frac(10, 100)), 2)
           ligne ==
               [mois |-> mois_revenu, annee |-> annee_revenu,
                periode |-> periode_actuelle, montant |-> F(revenu_net),
                investissement_disponible_bourse |-> montant_investissement_bourse,
                investissement_disponible_crypto |-> montant_investissement_crypto]
           insere == revenu_net > 0 /\ ~periode_existante /\ insertion
       IN  /\ revenus' = IF insere THEN Append(revenus, ligne) ELSE revenus
           /\ appel' = [op |-> "Enregistrer Revenu", revenu_net |-> revenu_net,
                        periode |-> periode_actuelle, data_revenus |-> data.revenus,
                        insere |-> insere]
    /\ UNCHANGED <<cache, investissements, perfVars>>

AppelCreerDonneesRevenu(mois, annee, montant) ==
    /\ appel' = [op |-> "creer_donnees_revenu", mois |-> mois, annee |-> annee,
                 montant |-> montant,
                 retour |-> creer_donnees_revenu(mois, annee, montant)]
    /\ UNCHANGED <<cache, revenus, investissements, perfVars>>

AppelVerifierPeriode(annee, mois) ==
    /\ appel' = [op |-> "verifier_periode_existante",
                 periode |-> creer_periode(annee, mois),
                 retour |-> verifier_periode_existante(revenus,
                                                       creer_periode(annee, mois))]
    /\ UNCHANGED <<cache, revenus, investissements, perfVars>>

AppelBudgetDisponible ==
    /\ appel' = [op |-> "calculer_budget_disponible", revenus |-> revenus,
                 retour |-> calculer_budget_disponible(revenus)]
    /\ UNCHANGED <<cache, revenus, investissements, perfVars>>

NextRevenus ==
    \/ \E revenu_net \in SaisiesRevenuNet, mois \in MoisPossibles,
          annee \in AnneesPossibles, lecture \in BOOLEAN, insertion \in BOOLEAN :
           EnregistrerRevenu(revenu_net, mois, annee, lecture, insertion)
    \/ \E mois \in MoisPossibles, annee \in AnneesPossibles, montant \in MontantsRevenu :
           AppelCreerDonneesRevenu(mois, annee, montant)
    \/ \E mois \in MoisPossibles, annee \in AnneesPossibles :
           AppelVerifierPeriode(annee, mois)
    \/ AppelBudgetDisponible

SpecRevenus == InitRevenus /\ [][NextRevenus]_vars

-----------------------------------------------------------------------------
AppelCreerRevenu == appel.op = "creer_donnees_revenu"

AppelBudgetDispo == appel.op = "calculer_budget_disponible"

AppelPeriode == appel.op = "verifier_periode_existante"

Soumission == appel.op = "Enregistrer Revenu"

EstEntier(x) == x[2] = 1

ValeurChiffre(c) ==
    CASE c = "0" -> 0 [] c = "1" -> 1 [] c = "2" -> 2 [] c = "3" -> 3 [] c = "4" -> 4
      [] c = "5" -> 5 [] c = "6" -> 6 [] c = "7" -> 7 [] c = "8" -> 8 [] c = "9" -> 9
      [] OTHER -> -1

RECURSIVE ValeurTexte(_)
ValeurTexte(texte) ==
    IF Len(texte) = 0 THEN 0
    ELSE 10 * ValeurTexte(SubSeq(texte, 1, Len(texte) - 1))
             + ValeurChiffre(texte[Len(texte)])

\* the text is made of n digits and writes the number v
EcritSur(texte, n, v) ==
    /\ Len(texte) = n
    /\ \A k \in 1..n : ValeurChiffre(texte[k]) >= 0
    /\ v = ValeurTexte(texte)

\* b is the integer just above or at x
PlafondDe(b, x) == EstEntier(b) /\ FLt(FSub(b, F(1)), x) /\ FLe(x, b)

(* C24: the record built by creer_donnees_revenu earmarks for the bourse and *)
(* for the crypto the tenth of the amount rounded to the nearest hundredth,  *)
(* and its periode is the year on four characters, a dash and the month on   *)
(* two characters, zero on the left; calculer_budget_disponible returns the  *)
(* ceiling of the summed bourse allocations, the ceiling of the summed       *)
(* crypto allocations and, as budget_total, the sum of these two ceilings:   *)
(* 300, 300 and 600 for one income of 3000.                                  *)
C24_RevenuEtBudgetDisponible ==
    /\ AppelCreerRevenu =>
           LET r == appel.retour
               dixieme == FDiv(appel.montant, F(10))
               part == r.investissement_disponible_bourse
           IN  /\ r.investissement_disponible_crypto = part
               /\ EstEntier(FMul(part, F(100)))
               /\ FLe(FSub(part, dixieme), Frac(1, 200))
               /\ FLe(FSub(dixieme, part), Frac(1, 200))
               /\ Len(r.periode) = 7
               /\ EcritSur(SubSeq(r.periode, 1, 4), 4, appel.annee)
               /\ r.periode[5] = "-"
               /\ EcritSur(SubSeq(r.periode, 6, 7), 2, appel.mois)
               /\ r.mois = appel.mois /\ r.annee = appel.annee
               /\ r.montant = appel.montant
               /\ appel.montant = F(3000) => part = F(300)
    /\ AppelBudgetDispo =>
           LET liste == appel.revenus
               bourse == SommeSeq([k \in 1..Len(liste) |->
                             liste[k].investissement_disponible_bourse])
               crypto == SommeSeq([k \in 1..Len(liste) |->
                             liste[k].investissement_disponible_crypto])
           IN  /\ PlafondDe(appel.retour[1], bourse)
               /\ PlafondDe(appel.retour[2], crypto)
               /\ appel.retour[3] = FAdd(appel.retour[1], appel.retour[2])
               /\ (Len(liste) = 1 /\ liste[1].montant = F(3000))
                      => appel.retour = <<F(300), F(300), F(600)>>

\* a record of a month below 10 whose tenth is rounded up
C24_Temoin ==
    /\ AppelCreerRevenu
    /\ appel.mois < 10
    /\ FLt(FDiv(appel.montant, F(10)), appel.retour.investissement_disponible_bourse)

\* two incomes whose allocations sum to 123.5: budgets 124, 124 and 248
C24_TemoinPlafond ==
    /\ AppelBudgetDispo
    /\ Len(appel.revenus) = 2
    /\ ~EstEntier(SommeSeq([k \in 1..2 |->
                      appel.revenus[k].investissement_disponible_bourse]))
    /\ appel.retour[3] = F(248)

(* C30: verifier_periode_existante is True exactly when a stored income has  *)
(* the period; a submission of 'Enregistrer Revenu' whose period is among    *)
(* the loaded incomes inserts nothing; and no two stored incomes share a     *)
(* period.                                                                   *)
C30_UnRevenuParPeriode ==
    /\ AppelPeriode
           => (appel.retour <=> \E k \in 1..Len(revenus) :
                                    revenus[k].periode = appel.periode)
    /\ (Soumission /\ \E k \in 1..Len(appel.data_revenus) :
                          appel.data_revenus[k].periode = appel.periode)
           => ~appel.insere
    /\ \A i, j \in 1..Len(revenus) :
           i # j => revenus[i].periode # revenus[j].periode

-----------------------------------------------------------------------------
(* Entry of the bourse transactions: app.py:411-480, and the budget used,    *)
(* business_logic.py:88-101.                                                 *)

MaxEntrees == 3    \* rows the table "bourse" may hold

ErrMontantInvesti == "Le montant doit etre superieur a 0"

ErrPrixInvesti == "Le prix unitaire doit etre superieur a 0"

valider_donnees_investissement(montant, prix_unitaire, symbole) ==
    LET e1 == IF FLe(montant, Zero) THEN <<ErrMontantInvesti>> ELSE <<>>
        e2 == IF FLe(prix_unitaire, Zero) THEN <<ErrPrixInvesti>> ELSE <<>>
        e3 == IF SymboleVide(symbole) THEN <<ErrSymbole>> ELSE <<>>
    IN  e1 \o e2 \o e3

\* i.get("hors_budget", False)
HorsBudget(i) == IF "hors_budget" \in DOMAIN i THEN i["hors_budget"] ELSE FALSE

\* mutant: a record without the flag is taken as hors budget
calculer_budget_utilise_defaut_vrai(liste) ==
    LET Compte(i) == "hors_budget" \in DOMAIN i /\ ~i["hors_budget"]
        comptes == SelectSeq(liste, Compte)
    IN  <<sum([k \in 1..Len(comptes) |-> comptes[k].montant]),
          sum([k \in 1..Len(liste) |-> liste[k].montant])>>

calculer_budget_utilise(liste) ==
    LET Compte(i) == ~HorsBudget(i)
        comptes == SelectSeq(liste, Compte)
        budget_utilise == sum([k \in 1..Len(comptes) |-> comptes[k].montant])
        total_investi == sum([k \in 1..Len(liste) |-> liste[k].montant])
    IN  <<budget_utilise, total_investi>>

\* the form of app.py:300-361
TypesOperation == {"Achat", "Vente"}

SymbolesBourse == {"AAPL", "aapl", "BTC", " "}

MontantsBourse == {Zero, F(2)}

PrixBourse == {F(1), F(2)}

DatesBourse == 1..MaxDate

\* test_app.py:172-176
ScenarioHorsBudget ==
    <<[montant |-> F(100), hors_budget |-> FALSE],
      [montant |-> F(200), hors_budget |-> TRUE],
      [montant |-> F(50), hors_budget |-> FALSE]>>

\* the list with the key hors_budget taken out of the rows of S
SansCle(liste, S) ==
    [k \in 1..Len(liste) |->
        IF k \in S
        THEN [c \in DOMAIN liste[k] \ {"hors_budget"} |-> liste[k][c]]
        ELSE liste[k]]

InitEntree ==
    /\ revenus = <<>>
    /\ cache = <<>>
    /\ investissements = <<>>
    /\ appel = AucunAppel
    /\ PerfAuRepos

\* app.py:64 and 411-480  one run of the script with the button pressed;
\* lecture: load_data read the tables; insertion: the insert did not raise
AjouterInvestissementBourse(type_operation_bourse, symbole_bourse, montant_bourse, prix_unitaire_bourse, date_bourse, hors_budget_bourse, lecture, insertion) ==
    /\ Len(investissements) < MaxEntrees
    /\ LET data == load_data(lecture, revenus, investissements)
           saisie == /\ symbole_bourse # ""
                     /\ FLt(Zero, montant_bourse)
                     /\ FLt(Zero, prix_unitaire_bourse)
           quantite_vente == FDiv(montant_bourse, prix_unitaire_bourse)
           erreurs ==
               IF type_operation_bourse = "Vente"
               THEN valider_donnees_vente(montant_bourse, prix_unitaire_bourse,
                                          symbole_bourse, quantite_vente, data.bourse)
               ELSE valider_donnees_investissement(montant_bourse,
                                                   prix_unitaire_bourse, symbole_bourse)
           donnees ==
               IF type_operation_bourse = "Vente"
               THEN creer_donnees_vente(date_bourse, symbole_bourse, montant_bourse,
                                        prix_unitaire_bourse).valeur
               ELSE AvecType(creer_donnees_investissement(
                                 date_bourse, symbole_bourse, montant_bourse,
                                 prix_unitaire_bourse, hors_budget_bourse).valeur,
                             type_operation_bourse)
           insere == saisie /\ erreurs = <<>> /\ insertion
       IN  /\ investissements' =
                  IF insere THEN Append(investissements, donnees) ELSE investissements
           /\ appel' = [op |-> "Ajouter Investissement Bourse",
                        erreurs |-> IF saisie THEN erreurs ELSE <<>>,
                        insere |-> insere]
    /\ UNCHANGED <<cache, revenus, perfVars>>

\* calculer_budget_utilise on the stored rows, some of them without the key
AppelBudgetUtilise(liste) ==
    /\ appel' = [op |-> "calculer_budget_utilise", investissements |-> liste,
                 retour |-> calculer_budget_utilise(liste)]
    /\ UNCHANGED <<cache, revenus, investissements, perfVars>>

NextEntree ==
    \/ \E type \in TypesOperation, symbole \in SymbolesBourse,
          montant \in MontantsBourse, prix \in PrixBourse, jour \in DatesBourse,
          hors_budget \in BOOLEAN, lecture \in BOOLEAN, insertion \in BOOLEAN :
           AjouterInvestissementBourse(type, symbole, montant, prix, jour,
                                       hors_budget, lecture, insertion)
    \/ \E liste \in {investissements, SansCle(investissements, {1}),
                     SansCle(investissements, 1..Len(investissements)),
                     ScenarioHorsBudget} :
           AppelBudgetUtilise(liste)

SpecEntree == InitEntree /\ [][NextEntree]_vars

-----------------------------------------------------------------------------
AppelBudgetUtil == appel.op = "calculer_budget_utilise"

SoumissionBourse == appel.op = "Ajouter Investissement Bourse"

SansDrapeau(i) == "hors_budget" \notin DOMAIN i

Debut(liste, k) == SubSeq(liste, 1, k)

(* C23: calculer_budget_utilise returns budget_utilise, the sum of montant   *)
(* over the records whose hors_budget is False or missing, and               *)
(* total_investi, the sum of montant over all records: 150 and 350 for 100   *)
(* in budget, 200 hors budget and 50 in budget; every stored sale, built by  *)
(* creer_donnees_vente, has hors_budget = True, so the budget_utilise of the *)
(* history up to and including a sale is the one of the history before it.   *)
C23_BudgetUtilise ==
    /\ AppelBudgetUtil =>
           LET liste == appel.investissements
           IN  /\ appel.retour[1]
                      = SommeSeq([k \in 1..Len(liste) |->
                            IF SansDrapeau(liste[k]) \/ ~liste[k].hors_budget
                            THEN liste[k].montant ELSE Zero])
               /\ appel.retour[2] = SommeSeq([k \in 1..Len(liste) |-> liste[k].montant])
               /\ liste = ScenarioHorsBudget => appel.retour = <<F(150), F(350)>>
    /\ \A k \in 1..Len(investissements) :
           EstUneVente(investissements[k])
               => /\ investissements[k].hors_budget = TRUE
                  /\ calculer_budget_utilise(Debut(investissements, k))[1]
                         = calculer_budget_utilise(Debut(investissements, k - 1))[1]

\* a purchase without the flag, a purchase hors budget and a sale
C23_Temoin ==
    /\ AppelBudgetUtil
    /\ Len(appel.investissements) = 3
    /\ SansDrapeau(appel.investissements[1])
    /\ ~EstUneVente(appel.investissements[2])
    /\ ~SansDrapeau(appel.investissements[2]) /\ appel.investissements[2].hors_budget
    /\ EstUneVente(appel.investissements[3])
    /\ appel.retour[1] = appel.investissements[1].montant
    /\ FLt(appel.retour[1], appel.retour[2])

\* what was bought less what was sold, with no clamp
SoldeBrut(invs, s) == FSub(QteAchetee(invs, s), QteVendue(invs, s))

(* C28: in the table filled from empty by the insertion path of the app,     *)
(* purchases have a quantity > 0 and, for every symbol and after every       *)
(* insertion, the quantity sold is at most the quantity purchased, so that   *)
(* calculer_quantite_disponible returns purchases less sales without its     *)
(* clamp at 0 acting, and FIFO matches every sale in full: matched           *)
(* quantities add up to the quantity of the sale, in both walks.             *)
C28_SaisieValideeCoherente ==
    \A s \in {"AAPL", "BTC"} :
        /\ \A i \in 1..Len(investissements) :
               FLt(Zero, investissements[i].quantite)
        /\ \A k \in 0..Len(investissements) :
               LET avant == Debut(investissements, k)
               IN  /\ FLe(QteVendue(avant, s), QteAchetee(avant, s))
                   /\ CumulQuantite(avant, s, 1, Zero) = SoldeBrut(avant, s)
                   /\ calculer_quantite_disponible(avant, s) = SoldeBrut(avant, s)
        /\ \A j \in 1..Len(investissements) :
               EstVenteDe(investissements, s, j)
                   => SommeSeq([i \in 1..Len(investissements) |->
                          Apparie(investissements, s, i, j)])
                          = investissements[j].quantite
        /\ LET lots == calculer_positions_restantes_fifo(investissements, s)
           IN  SommeSeq([k \in 1..Len(lots) |->
                   FSub(lots[k].quantite_initiale, lots[k].quantite_restante)])
                   = QteVendue(investissements, s)
        /\ calculate_realized_pnl(investissements, s).quantite_vendue_totale
               = QteVendue(investissements, s)

\* two purchases of a symbol, then the sale of all of it accepted
C28_Temoin ==
    /\ SoumissionBourse
    /\ appel.insere
    /\ Len(investissements) = 3
    /\ EstAchatDe(investissements, "AAPL", 1)
    /\ EstAchatDe(investissements, "AAPL", 2)
    /\ EstVenteDe(investissements, "AAPL", 3)
    /\ investissements[3].quantite = QteAchetee(investissements, "AAPL")

\* a sale of more than the position is refused and nothing is inserted
C28_TemoinRefus ==
    /\ SoumissionBourse
    /\ ~appel.insere
    /\ appel.erreurs = <<ErrInsuffisante>>
    /\ Len(investissements) > 0

-----------------------------------------------------------------------------
(* Price lookup: price_service.py:21-188 and 459-475.  What the store and    *)
(* the market answer is an input of the call: the query of the learned       *)
(* mapping and each request of a price history either raise, or return no    *)
(* data, or return data.  cache is a function from keys to entries; a key    *)
(* is the kind and the symbol, for f"crypto_{symbol}" and f"stock_{symbol}". *)

MaxAppelsPrix == 2     \* calls of get_current_price in a behaviour

cache_duration == 300

Exception == "Exception"

Lower(s) ==
    CASE s = "Crypto" -> "crypto"
      [] s = "BOURSE" -> "bourse"
      [] s = "ETF" -> "etf"
      [] OTHER -> s

_is_cache_valid(c, cle, maintenant) ==
    IF cle \notin DOMAIN c
    THEN FALSE
    ELSE maintenant - c[cle].timestamp < cache_duration

MettreEnCache(c, cle, price, maintenant) ==
    [k \in DOMAIN c \cup {cle} |->
        IF k = cle THEN [price |-> price, timestamp |-> maintenant] ELSE c[k]]

\* the query of price_service.py:465-470; the symbol found is the sequence of
\* its characters
Requete(reponse) ==
    CASE reponse = "leve" -> Leve(Exception)
      [] reponse = "vide" -> Retourne(<<>>)
      [] reponse = "trouve"
             -> Retourne(<<[yahoo_symbol |-> <<"B", "T", "C", "-", "E", "U", "R">>]>>)

\* yf.Ticker(...).history(period="2d"): the closing prices
History(reponse, prix) ==
    CASE reponse = "leve" -> Leve(Exception)
      [] reponse = "vide" -> Retourne(<<>>)
      [] reponse = "prix" -> Retourne(<<prix>>)

\* mutant: the exception of the query leaves the function
_get_learned_mapping_sans_except(supabase, reponse) ==
    IF ~supabase
    THEN Retourne(None)
    ELSE LET result == Requete(reponse)
         IN  IF ALeve(result) THEN result
             ELSE IF result.valeur # <<>>
             THEN Retourne(result.valeur[1].yahoo_symbol)
             ELSE Retourne(None)

_get_learned_mapping(supabase, reponse) ==
    IF ~supabase
    THEN Retourne(None)
    ELSE LET result == Requete(reponse)
         IN  IF ALeve(result) THEN Retourne(None)
             ELSE IF result.valeur # <<>>
             THEN Retourne(result.valeur[1].yahoo_symbol)
             ELSE Retourne(None)

\* the outcome of a method of the service: what it returns or raises, and
\* the cache as it leaves it
Issue(r, c) == [retour |-> r, cache |-> c]

get_crypto_price(c, symbol, maintenant, supabase, reponse, cours, prix) ==
    IF _is_cache_valid(c, <<"crypto", symbol>>, maintenant)
    THEN Issue(Retourne(c[<<"crypto", symbol>>].price), c)
    ELSE LET learned_symbol == _get_learned_mapping(supabase, reponse)
             hist == History(cours, prix)
         IN  IF ALeve(learned_symbol) THEN Issue(Retourne(None), c)
             ELSE IF learned_symbol.valeur # None
             THEN IF ALeve(hist) THEN Issue(Retourne(None), c)
                  ELSE IF hist.valeur # <<>>
                  THEN Issue(Retourne(hist.valeur[Len(hist.valeur)]),
                             MettreEnCache(c, <<"crypto", symbol>>,
                                           hist.valeur[Len(hist.valeur)], maintenant))
                  ELSE Issue(Retourne(None), c)
             ELSE Issue(Retourne(None), c)

NbVariantes == 7

\* the loop of price_service.py:94-109 from the variant i
RECURSIVE EssayerVariantes(_, _, _)
EssayerVariantes(variantes, prix, i) ==
    IF i > NbVariantes
    THEN Retourne(None)
    ELSE LET hist == History(variantes[i], prix)
         IN  IF ALeve(hist) THEN EssayerVariantes(variantes, prix, i + 1)
             ELSE IF hist.valeur # <<>>
             THEN Retourne(<<i, hist.valeur[Len(hist.valeur)]>>)
             ELSE EssayerVariantes(variantes, prix, i + 1)

_try_multiple_symbols(variantes, prix) == EssayerVariantes(variantes, prix, 1)

get_stock_price(c, symbol, maintenant, variantes, prix) ==
    IF _is_cache_valid(c, <<"stock", symbol>>, maintenant)
    THEN Issue(Retourne(c[<<"stock", symbol>>].price), c)
    ELSE LET result == _try_multiple_symbols(variantes, prix)
         IN  IF ALeve(result) THEN Issue(Retourne(None), c)
             ELSE IF result.valeur # None
             THEN Issue(Retourne(result.valeur[2]),
                        MettreEnCache(c, <<"stock", symbol>>, result.valeur[2],
                                      maintenant))
             ELSE Issue(Retourne(None), c)

get_current_price(c, symbol, asset_type, t, supabase, reponse, cours, variantes, prix) ==
    IF Lower(asset_type) = "crypto"
    THEN get_crypto_price(c, symbol, t, supabase, reponse, cours, prix)
    ELSE IF Lower(asset_type) = "bourse"
    THEN LET learned_symbol == _get_learned_mapping(supabase, reponse)
             hist == History(cours, prix)
         IN  IF ALeve(learned_symbol) THEN Issue(learned_symbol, c)
             ELSE IF /\ learned_symbol.valeur # None
                     /\ ~ALeve(hist)
                     /\ hist.valeur # <<>>
             THEN Issue(Retourne(hist.valeur[Len(hist.valeur)]),
                        MettreEnCache(c, <<"stock", symbol>>,
                                      hist.valeur[Len(hist.valeur)], t))
             ELSE get_stock_price(c, symbol, t, variantes, prix)
    ELSE Issue(Retourne(None), c)

-----------------------------------------------------------------------------
(* SpecPrix: calls of get_current_price on one PriceService, for every       *)
(* answer of the store and of the market.                                    *)

SymbolesPrix == {"BTC", "aapl"}

TypesActif == {"crypto", "bourse", "BOURSE", "ETF"}

\* time.time() at the call
Instants == {0, 100, 400}

\* the store: no client, or what the query does
Reponses == {"absent", "leve", "vide", "trouve"}

Cours == {"leve", "vide", "prix"}

\* the answers for the variants: failures of one kind up to the variant k,
\* which has a price, or failures only
VariantesPossibles ==
    {[i \in 1..NbVariantes |-> IF i < k THEN e ELSE IF i = k THEN "prix" ELSE "vide"] :
        <<k, e>> \in {1, 2, NbVariantes + 1} \X {"leve", "vide"}}

PrixMarche == {F(1), F(2)}

InitPrix ==
    /\ cache = <<>>
    /\ revenus = <<>>
    /\ investissements = <<>>
    /\ appel = AucunAppel
    /\ PerfAuRepos

AppelGetCurrentPrice(symbol, asset_type, maintenant, reponse, cours, variantes, prix) ==
    /\ Len(appels_prix) < MaxAppelsPrix
    /\ \A k \in DOMAIN cache : cache[k].timestamp <= maintenant
    /\ LET issue == get_current_price(cache, symbol, asset_type, maintenant,
                                      reponse # "absent", reponse, cours, variantes,
                                      prix)
       IN  /\ cache' = issue.cache
           /\ appel' = [op |-> "get_current_price", symbol |-> symbol,
                        asset_type |-> asset_type,
                        reponse |-> reponse,
                        cours |-> cours, variantes |-> variantes,
                        retour |-> issue.retour]
           /\ appels_prix' = Append(appels_prix,
                                    [symbol |-> symbol, issue |-> issue.retour])
    /\ UNCHANGED <<revenus, investissements, pc, unique_symbols, symbol_prices,
                   enriched_investments>>

NextPrix ==
    \E symbol \in SymbolesPrix, asset_type \in TypesActif, maintenant \in Instants,
       reponse \in Reponses, cours \in Cours, variantes \in VariantesPossibles,
       prix \in PrixMarche :
        AppelGetCurrentPrice(symbol, asset_type, maintenant, reponse, cours, variantes,
                             prix)

SpecPrix == InitPrix /\ [][NextPrix]_vars

AppelPrix == appel.op = "get_current_price"

(* C25: get_current_price returns a price or None and raises nothing,        *)
(* whatever the query of the learned mapping and the requests of prices do:  *)
(* raise, return no data or return data; for an asset type other than        *)
(* crypto and bourse it returns None.                                        *)
C25_PrixOuNone ==
    AppelPrix =>
        /\ ~ALeve(appel.retour)
        /\ appel.retour.valeur = None \/ appel.retour.valeur \in PrixMarche
        /\ Lower(appel.asset_type) \notin {"crypto", "bourse"}
               => appel.retour.valeur = None

\* a bourse lookup whose mapping query raised and whose variants all raised
C25_Temoin ==
    /\ AppelPrix
    /\ appel.asset_type = "BOURSE"
    /\ appel.reponse = "leve"
    /\ \A i \in 1..NbVariantes : appel.variantes[i] # "prix"
    /\ appel.variantes[1] = "leve"
    /\ appel.retour = Retourne(None)

====
